---- MODULE Spec2Model ----
(***************************************************************************)
(* A model of the Air Mozilla management interface: the slug generator     *)
(* (base/utils.py), the event request / edit handlers with the approval    *)
(* reconciliation of _event_process, the approval review handler and the   *)
(* delete operations (manage/views.py), over the relational records the    *)
(* tests exercise (main/tests/test_models.py, manage/tests/test_views.py). *)
(***************************************************************************)
EXTENDS Integers, Sequences, FiniteSets, TLC

(***************************************************************************)
(* Bounds of the model.                                                    *)
(***************************************************************************)
MaxDataLen == 3      \* longest source string drawn for unique_slugify
MaxEvents == 1       \* Event rows ever created in one run
MaxSlugEvents == 2   \* the same, in the runs about slugs
MaxApprovals == 2    \* Approval rows ever created in one run
MaxOrphanApprovals == 3  \* the same, in the runs that delete groups
MaxOldSlugs == 2     \* EventOldSlug rows ever created in one run
MaxTime == 1         \* the clock runs 0..MaxTime
MaxArchiveShift == 4 \* hours between an archive_time followed and its start_time

(***************************************************************************)
(* Strings are sequences of one-character strings.                         *)
(***************************************************************************)
Lower == {"a", "b", "e", "n", "s", "t", "v"}
Upper == {"A", "E", "T"}
Digit == {"0", "1", "2", "3", "4", "5", "6", "7", "8", "9"}
Space == {" "}
Hyphen == {"-"}

ToLower(c) == IF c = "A" THEN "a"
              ELSE IF c = "E" THEN "e"
              ELSE IF c = "T" THEN "t"
              ELSE c

DigitChar(d) == <<"0", "1", "2", "3", "4", "5", "6", "7", "8", "9">>[d + 1]

\* "%i" % n for n >= 0
RECURSIVE IntToStr(_)
IntToStr(n) == IF n < 10 THEN <<DigitChar(n)>>
               ELSE IntToStr(n \div 10) \o <<DigitChar(n % 10)>>

\* re.sub('[^\w\s-]', '', value): every other character, as '!', is removed
RECURSIVE RemoveNonWord(_)
RemoveNonWord(s) ==
    IF s = <<>> THEN <<>>
    ELSE IF Head(s) \notin (Lower \cup Upper \cup Digit \cup Space \cup Hyphen)
    THEN RemoveNonWord(Tail(s))
    ELSE <<Head(s)>> \o RemoveNonWord(Tail(s))

\* .strip(): whitespace at both ends
RECURSIVE LStrip(_)
LStrip(s) == IF s # <<>> /\ Head(s) \in Space THEN LStrip(Tail(s)) ELSE s

RECURSIVE RStrip(_)
RStrip(s) == IF s # <<>> /\ s[Len(s)] \in Space
             THEN RStrip(SubSeq(s, 1, Len(s) - 1)) ELSE s

Strip(s) == RStrip(LStrip(s))

\* .lower()
LowerCase(s) == [i \in 1..Len(s) |-> ToLower(s[i])]

\* re.sub('[-\s]+', '-', value): every run of hyphens and spaces becomes one '-'
RECURSIVE CollapseSeparators(_)
CollapseSeparators(s) ==
    IF s = <<>> THEN <<>>
    ELSE IF Head(s) \in (Space \cup Hyphen)
         THEN IF Len(s) > 1 /\ s[2] \in (Space \cup Hyphen)
              THEN CollapseSeparators(Tail(s))
              ELSE <<"-">> \o CollapseSeparators(Tail(s))
         ELSE <<Head(s)>> \o CollapseSeparators(Tail(s))

\* django.template.defaultfilters.slugify, as called by unique_slugify
slugify(data) == CollapseSeparators(LowerCase(Strip(RemoveNonWord(data))))

\* a test that looks in the first collection only
SlugExists_first(slug, models) == slug \in models[1]

\* any(model.objects.filter(slug=slug).exists() for model in models), where a
\* collection is given by the set of slugs its rows hold
SlugExists(slug, models) == \E i \in 1..Len(models) : slug \in models[i]

\* a loop that tries the base again
Candidate_base(slug_base, counter) == slug_base

\* "%s-%i" % (slug_base, counter)
Candidate(slug_base, counter) == slug_base \o <<"-">> \o IntToStr(counter)

\* the while loop of unique_slugify, from the state (slug_base, counter, slug)
RECURSIVE SlugLoop(_, _, _, _, _)
SlugLoop(slug_base, counter, slug, models, duplicate_key) ==
    IF ~SlugExists(slug, models) THEN slug
    ELSE LET c == counter + 1 IN
         IF c = 1 /\ duplicate_key # <<>>
         THEN SlugLoop(slug_base \o <<"-">> \o duplicate_key, c,
                       slug_base \o <<"-">> \o duplicate_key, models, duplicate_key)
         ELSE SlugLoop(slug_base, c, Candidate(slug_base, c), models, duplicate_key)

\* a generator that appends the key without counting that step
unique_slugify_uncounted(data, models, duplicate_key) ==
    IF SlugExists(slugify(data), models) /\ duplicate_key # <<>>
    THEN SlugLoop(slugify(data) \o <<"-">> \o duplicate_key, 0,
                  slugify(data) \o <<"-">> \o duplicate_key, models, <<>>)
    ELSE SlugLoop(slugify(data), 0, slugify(data), models, duplicate_key)

unique_slugify(data, models, duplicate_key) ==
    SlugLoop(slugify(data), 0, slugify(data), models, duplicate_key)

(***************************************************************************)
(* The stored records.                                                     *)
(***************************************************************************)
VARIABLES
    users,      \* the User rows that exist
    groups,     \* the Group rows that exist
    memberOf,   \* user -> the groups of user.groups
    catalog,    \* the Location, Category, Template, Tag, Participant rows
    events,     \* Event id -> Event row
    oldslugs,   \* EventOldSlug id -> [event, slug]
    approvals,  \* Approval id -> Approval row
    nextId,     \* the next primary key of each table
    now,        \* the clock
    last,       \* the most recent request and its response
    slugCall,   \* one call of unique_slugify: its arguments and its result
    inflight    \* request served beside others -> its position and what it read

vars == <<users, groups, memberOf, catalog, events, oldslugs, approvals,
          nextId, now, last, slugCall, inflight>>

None == "None"          \* a null reference
NoTime == 0 - 1         \* a null time
NoToken == ""
Anonymous == "anonymous"

AllUsers == {"admin", "organizer", "visitor"}
AllGroups == {"A", "B", "C"}

\* is_superuser / is_staff / user_permissions of the accounts: a superuser as
\* the tests' setUp creates, an experienced event organizer, a user who is
\* not staff, and, in the runs that have one, a plain event organizer
Planner == "planner"
IsSuperuser(u) == u = "admin"
IsStaff(u) == u \in {"admin", "organizer", Planner}
UserPermissions(u) ==
    IF u = "organizer"
    THEN {"main.add_event", "main.change_event", "main.add_event_scheduled",
          "main.change_participant", "main.delete_participant"}
    ELSE IF u = Planner
    THEN {"main.add_event", "main.change_event"}
    ELSE {}

\* user.has_perm(perm)
has_perm(u, perm) ==
    /\ u \in users
    /\ IsSuperuser(u) \/ perm \in UserPermissions(u)

\* staff_required and permission_required(perm): both send the user to the
\* login page when the test fails
staff_required(u) == u \in users /\ IsStaff(u)
permission_required_open(u, perm) == TRUE

permission_required(u, perm) == has_perm(u, perm)

Put(f, k, v) == [x \in DOMAIN f \cup {k} |-> IF x = k THEN v ELSE f[x]]
Drop(f, S) == [x \in DOMAIN f \ S |-> f[x]]

Response(op, user, method, id, outcome) ==
    [op |-> op, user |-> user, method |-> method, id |-> id,
     outcome |-> outcome, name |-> None, fields |-> {}, field |-> FALSE,
     D |-> {}, notified |-> {}, start |-> NoTime, zone |-> None,
     listed |-> <<>>, target |-> None, unsent |-> {}]

Named(response, name) == [response EXCEPT !.name = name]

\* the redirect to the login page by staff_required and permission_required
Refused(op, u, req, id) ==
    [Response(op, u, req.method, id, "redirect:login") EXCEPT !.fields = req.fields]

\* the object a remove view is asked for
Aimed(response, target) == [response EXCEPT !.target = target]

\* a view that deletes whatever the method
IsPost_always(req) == TRUE

\* request.method == 'POST'
IsPost(req) == req.method = "POST"

(***************************************************************************)
(* Dates and times.  A time is a number of minutes since 2012-01-01 00:00; *)
(* an aware datetime is the wall-clock time it shows and the UTC offset it *)
(* carries.                                                                *)
(***************************************************************************)
MinutesPerHour == 60
HoursPerDay == 24
DaysInMonth == <<31, 29, 31, 30, 31, 30, 31, 31, 30, 31, 30, 31>>

RECURSIVE DaysBefore(_)
DaysBefore(month) ==
    IF month = 1 THEN 0 ELSE DaysBefore(month - 1) + DaysInMonth[month - 1]

\* datetime.datetime(2012, month, day, hour)
At(month, day, hour) ==
    ((DaysBefore(month) + day - 1) * HoursPerDay + hour) * MinutesPerHour

\* the month and the day of the month of a wall-clock time
MonthOf(wall) ==
    CHOOSE month \in 1..Len(DaysInMonth) :
        /\ DaysBefore(month) <= wall \div (HoursPerDay * MinutesPerHour)
        /\ wall \div (HoursPerDay * MinutesPerHour) < DaysBefore(month) + DaysInMonth[month]
DayOf(wall) == wall \div (HoursPerDay * MinutesPerHour) - DaysBefore(MonthOf(wall)) + 1

\* "%02d" % n
TwoDigits(n) == (IF n < 10 THEN <<"0">> ELSE <<>>) \o IntToStr(n)

Aware(wall, offset) == [wall |-> wall, offset |-> offset]

\* the UTC instant of an aware datetime
Instant(dt) == dt.wall - dt.offset

\* the zones pytz.timezone knows, of the names the tests submit
Zones == {"UTC", "US/Eastern", "US/Pacific", "Europe/Paris"}

\* the offset of the zone's standard time
StdOffset(tz) ==
    CASE tz = "US/Eastern" -> (0 - 5) * MinutesPerHour
      [] tz = "US/Pacific" -> (0 - 8) * MinutesPerHour
      [] tz = "Europe/Paris" -> MinutesPerHour
      [] OTHER -> 0

DstOffset(tz) == StdOffset(tz) + MinutesPerHour

HasDst(tz) == tz # "UTC"

\* daylight saving time of 2012: the wall-clock time, in standard time, at
\* which it starts, and the wall-clock time, in daylight time, at which it ends
DstStartWall(tz) == IF tz = "Europe/Paris" THEN At(3, 25, 2) ELSE At(3, 11, 2)
DstEndWall(tz) == IF tz = "Europe/Paris" THEN At(10, 28, 3) ELSE At(11, 4, 2)

\* a localize that knows standard time only
localize_standard(wall, tz) == Aware(wall, StdOffset(tz))

\* tz.localize(naive), is_dst=False: a wall-clock time of the skipped hour or
\* of the repeated hour is read as standard time
localize(wall, tz) ==
    Aware(wall,
          IF /\ HasDst(tz)
             /\ wall >= DstStartWall(tz) + MinutesPerHour
             /\ wall < DstEndWall(tz) - MinutesPerHour
          THEN DstOffset(tz) ELSE StdOffset(tz))

\* tz.normalize(aware): the same instant with the offset in force at it
normalize(dt, tz) ==
    LET offset == IF /\ HasDst(tz)
                     /\ Instant(dt) >= DstStartWall(tz) - StdOffset(tz)
                     /\ Instant(dt) < DstEndWall(tz) - DstOffset(tz)
                  THEN DstOffset(tz) ELSE StdOffset(tz)
    IN Aware(Instant(dt) + offset, offset)

\* datetime.replace(tzinfo=None): the wall-clock time alone
Naive(dt) == dt.wall

tz_apply(datetime, tz) == normalize(localize(Naive(datetime), tz), tz)

\* a datetime as the database keeps it and gives it back: aware, in UTC
ToDB(dt) == Aware(Instant(dt), 0)

\* a null datetime field
NullTime == Aware(NoTime, 0)

\* settings.TIME_ZONE, the zone Django puts on the datetimes of a form
SettingsTimeZone == "US/Pacific"

\* a DateTimeField cleaned: the time typed in, aware in settings.TIME_ZONE
FormTime(wall) == localize(wall, SettingsTimeZone)

\* noon of 2012-03-04, the start of the events the workflow requests
FixtureStart == At(3, 4, 12)

(***************************************************************************)
(* Event rows and their slugs.                                             *)
(***************************************************************************)
DB == [events |-> events, oldslugs |-> oldslugs, approvals |-> approvals,
       nextId |-> nextId]

\* an Event table in which the filter finds no row
EventSlugs_none(evs) == {}

\* the slugs the rows of Event and of EventOldSlug hold
EventSlugs(evs) == {evs[e].slug : e \in DOMAIN evs}
OldSlugs(olds) == {olds[o].slug : o \in DOMAIN olds}

\* start_time.strftime('%Y%m%d'): the date the datetime shows in its own zone
StrfDate(dt) ==
    <<"2", "0", "1", "2">> \o TwoDigits(MonthOf(dt.wall)) \o TwoDigits(DayOf(dt.wall))

\* Event pre_save: an empty slug is generated from the title, unique over
\* Event and EventOldSlug, with the start date as duplicate key
GeneratedSlug(db, ev) ==
    IF ev.slug = <<>>
    THEN unique_slugify(ev.title, <<EventSlugs(db.events), OldSlugs(db.oldslugs)>>,
                        StrfDate(ev.start_time))
    ELSE ev.slug

\* the instance after pre_save, and the row the database keeps of it
Slugged(db, ev) == [ev EXCEPT !.slug = GeneratedSlug(db, ev)]

StoredRow(db, ev) ==
    [Slugged(db, ev) EXCEPT
        !.start_time = ToDB(@),
        !.archive_time = IF @ = NullTime THEN NullTime ELSE ToDB(@)]

\* a save that keeps no old slug
EventSave_forgetful(db, id, ev) ==
    [db EXCEPT !.events = Put(db.events, id, StoredRow(db, ev))]

\* event.save(): the row is written with its slug; when the stored row held
\* another slug, that slug is kept in a new EventOldSlug row
EventSave(db, id, ev) ==
    LET saved == StoredRow(db, ev)
        renamed == id \in DOMAIN db.events /\ db.events[id].slug # saved.slug
    IN [db EXCEPT
          !.events = Put(db.events, id, saved),
          !.oldslugs = IF renamed
                       THEN Put(db.oldslugs, db.nextId.oldslug,
                                [event |-> id, slug |-> db.events[id].slug])
                       ELSE @,
          !.nextId.oldslug = IF renamed THEN @ + 1 ELSE @]

\* the form classes event_request and event_edit choose from
FormClassRequest(u) ==
    IF has_perm(u, "main.add_event_scheduled") \/ has_perm(u, "main.change_event_others")
    THEN "EventExperiencedRequestForm" ELSE "EventRequestForm"

FormClassEdit(u) ==
    IF has_perm(u, "main.change_event_others") THEN "EventEditForm"
    ELSE IF has_perm(u, "main.add_event_scheduled") THEN "EventExperiencedRequestForm"
    ELSE "EventRequestForm"

\* forms that all have the field
HasApprovalsField_every(form) == TRUE

\* 'approvals' in form.cleaned_data: every form but EventRequestForm has the field
HasApprovalsField(form) == form # "EventRequestForm"

\* a form whose time zone field takes any name
is_valid_anyzone(db, form, id, data) ==
    /\ data.complete
    /\ data.title # <<>>
    /\ HasApprovalsField(form) => data.approvals \subseteq groups
    /\ data.slug # <<>> =>
          /\ data.slug \notin {db.events[e].slug : e \in DOMAIN db.events \ {id}}
          /\ data.slug \notin OldSlugs(db.oldslugs)

\* form.is_valid(): the required fields are there, the time zone is one of
\* the field's choices, the chosen rows exist, and a slug typed in is held by
\* no other Event and by no EventOldSlug
is_valid(db, form, id, data) ==
    /\ data.complete
    /\ data.timezone \in Zones
    /\ data.title # <<>>
    /\ HasApprovalsField(form) => data.approvals \subseteq groups
    /\ data.slug # <<>> =>
          /\ data.slug \notin {db.events[e].slug : e \in DOMAIN db.events \ {id}}
          /\ data.slug \notin OldSlugs(db.oldslugs)

\* form.save(commit=False): the form's fields written onto the instance
FormSave(ev, data) ==
    [ev EXCEPT !.title = data.title, !.slug = data.slug,
               !.start_time = FormTime(data.start_time)]

\* Event(): a blank instance
BlankEvent ==
    [title |-> <<>>, slug |-> <<>>, start_time |-> NullTime,
     archive_time |-> NullTime, end_time |-> NullTime, status |-> "I",
     public |-> FALSE, creator |-> None,
     modified_user |-> None, location |-> None, category |-> None,
     template |-> None, tags |-> {}, participants |-> {}]

(***************************************************************************)
(* _event_process: creator and modifier, then the approvals update.        *)
(***************************************************************************)
\* event.approval_set.all()
approval_set(apps, id) == {a \in DOMAIN apps : apps[a].event = id}

\* approvals_old: the group of every Approval of the event, None for an
\* Approval whose group is gone
approvals_old(apps, id) == {apps[a].group : a \in approval_set(apps, id)}

\* a reconciliation that adds every desired group, also those with an Approval
approvals_add_all(new, old) == new

approvals_add(new, old) == new \ old
approvals_remove(new, old) == old \ new

\* an Approval that is born decided
NewApproval_decided(id, group) ==
    [event |-> id, group |-> group, user |-> "admin", approved |-> TRUE,
     processed |-> TRUE, processed_time |-> 0]

\* Approval(group=group, event=event)
NewApproval(id, group) ==
    [event |-> id, group |-> group, user |-> None, approved |-> FALSE,
     processed |-> FALSE, processed_time |-> NoTime]

\* a notification addressed to every staff user
emails_staff(group) == {u \in users : IsStaff(u)}

\* [u.email for u in group.user_set.all()]
emails(group) == {u \in users : group \in memberOf[u]}

\* EmailMessage(subject, message, settings.EMAIL_FROM_ADDRESS, emails)
EmailMessage(group) == [group |-> group, to |-> emails(group)]

\* the first loop: one Approval saved for every group of approvals_add
RECURSIVE AddApprovals(_, _, _)
AddApprovals(db, id, add) ==
    IF add = {} THEN db
    ELSE LET g == CHOOSE x \in add : TRUE
         IN AddApprovals(
                [db EXCEPT !.approvals = Put(@, db.nextId.approval, NewApproval(id, g)),
                           !.nextId.approval = @ + 1],
                id, add \ {g})

\* Approval.objects.get(group=approval, event=event): the rows it matches
\* (group=None matches the rows whose group is null)
ApprovalsMatching(apps, id, g) == {a \in approval_set(apps, id) : apps[a].group = g}

\* the second loop over approvals_remove.  get() raises unless exactly one row
\* matches; the groups deleted before it raises are any of those that match
\* once, the set being walked in no particular order.
RemoveOutcomes(db, id, remove) ==
    LET raising == {g \in remove : Cardinality(ApprovalsMatching(db.approvals, id, g)) # 1}
        Deleted(R) == UNION {ApprovalsMatching(db.approvals, id, g) : g \in R}
    IN IF raising = {}
       THEN {[db |-> [db EXCEPT !.approvals = Drop(@, Deleted(remove))], raised |-> FALSE]}
       ELSE {[db |-> [db EXCEPT !.approvals = Drop(@, Deleted(R))], raised |-> TRUE] :
                R \in SUBSET (remove \ raising)}

\* the groups whose email.send() raises in this request: the answer of the
\* mail backend, drawn with the request
Unsent(req) == IF "unsent" \in DOMAIN req THEN req.unsent ELSE {}

\* _event_process(request, form, event) for a form with the approvals field:
\* the set of its results, each [db, event, raised, notified, unsent].  The
\* first loop saves the Approval of a group and then sends its email; a send
\* that raises ends the request there, after the groups that came before it,
\* the set being walked in no particular order.
ProcessApprovals(db, id, ev, new, unsent) ==
    LET db1 == EventSave(db, id, ev)
        old == approvals_old(db1.approvals, id)
        add == approvals_add(new, old)
        db2 == AddApprovals(db1, id, add)
    IN IF add \cap unsent = {}
       THEN {[db |-> r.db, event |-> Slugged(db, ev), raised |-> r.raised,
              notified |-> {EmailMessage(g) : g \in add}, unsent |-> {}] :
                 r \in RemoveOutcomes(db2, id, approvals_remove(new, old))}
       ELSE {[db |-> AddApprovals(db1, id, sent \cup {g}),
              event |-> Slugged(db, ev), raised |-> TRUE,
              notified |-> {EmailMessage(h) : h \in sent}, unsent |-> {g}] :
                 g \in add \cap unsent, sent \in SUBSET (add \ unsent)}

\* event.creator and event.modified_user
Attributed(ev, u) ==
    [ev EXCEPT !.creator = IF @ = None THEN u ELSE @, !.modified_user = u]

\* event.start_time and event.archive_time read in the zone submitted
Localized(ev, tz) ==
    [ev EXCEPT !.start_time = tz_apply(@, tz),
               !.archive_time = IF @ = NullTime THEN NullTime ELSE tz_apply(@, tz)]

\* pytz.timezone(name) raises UnknownTimeZoneError for a name it does not know
_event_process(db, u, form, id, ev, data, unsent) ==
    IF data.timezone \notin Zones
    THEN {[db |-> db, event |-> Attributed(ev, u), raised |-> TRUE, notified |-> {},
           unsent |-> {}]}
    ELSE IF HasApprovalsField(form)
    THEN ProcessApprovals(db, id, Localized(Attributed(ev, u), data.timezone),
                          data.approvals, unsent)
    ELSE {[db |-> db, event |-> Localized(Attributed(ev, u), data.timezone),
           raised |-> FALSE, notified |-> {}, unsent |-> {}]}

(***************************************************************************)
(* The requests.  A request is [method, cancel, ...]; every handler leaves *)
(* its response in last.                                                   *)
(***************************************************************************)
Commit(db, response) ==
    /\ events' = db.events
    /\ oldslugs' = db.oldslugs
    /\ approvals' = db.approvals
    /\ nextId' = db.nextId
    /\ last' = response

Respond(response) ==
    /\ last' = response
    /\ UNCHANGED <<events, oldslugs, approvals, nextId, inflight>>

\* a cancel_redirect that lets every request through
Cancelled_never(req) == FALSE

\* cancel_redirect: a POST request with a cancel field
Cancelled(req) == req.method = "POST" /\ "cancel" \in req.fields

\* the part of event_request and event_edit after the form is bound: save the
\* form on the instance, _event_process, event.save(), redirect
SubmitEvent(op, u, form, id, ev, req) ==
    IF ~is_valid(DB, form, id, req.data)
    THEN Respond([Response(op, u, req.method, id, "render")
                    EXCEPT !.start = req.data.start_time,
                           !.zone = req.data.timezone])
    ELSE \E r \in _event_process(DB, u, form, id, FormSave(ev, req.data), req.data,
                                 Unsent(req)) :
            LET db == IF r.raised THEN r.db ELSE EventSave(r.db, id, r.event)
                made == [db EXCEPT !.nextId.event = IF @ = id THEN @ + 1 ELSE @]
            IN Commit(made,
                      [Response(op, u, req.method, id,
                                IF r.raised THEN "error" ELSE "redirect:events")
                         EXCEPT !.field = HasApprovalsField(form),
                                !.D = IF HasApprovalsField(form)
                                      THEN req.data.approvals ELSE {},
                                !.notified = r.notified,
                                !.unsent = r.unsent,
                                !.start = req.data.start_time,
                                !.zone = req.data.timezone])

event_request(u, req) ==
    /\ UNCHANGED <<users, groups, memberOf, catalog, now, slugCall, inflight>>
    /\ IF ~staff_required(u) \/ ~permission_required(u, "main.add_event")
       THEN Respond(Refused("event_request", u, req, 0))
       ELSE IF Cancelled(req)
       THEN Respond([Response("event_request", u, req.method, 0, "redirect:events")
                       EXCEPT !.fields = req.fields])
       ELSE IF req.method = "POST"
       THEN SubmitEvent("event_request", u, FormClassRequest(u), nextId.event,
                        BlankEvent, req)
       ELSE Respond(Response("event_request", u, req.method, 0, "render"))

event_edit(u, id, req) ==
    /\ UNCHANGED <<users, groups, memberOf, catalog, now, slugCall, inflight>>
    /\ IF ~staff_required(u) \/ ~permission_required(u, "main.change_event")
       THEN Respond(Refused("event_edit", u, req, id))
       ELSE IF Cancelled(req)
       THEN Respond([Response("event_edit", u, req.method, id, "redirect:events")
                       EXCEPT !.fields = req.fields])
       ELSE IF id \notin DOMAIN events
       THEN Respond(Response("event_edit", u, req.method, id, "error"))
       ELSE IF ~has_perm(u, "main.change_event_others") /\ u # events[id].creator
       THEN Respond(Response("event_edit", u, req.method, id, "redirect:events"))
       ELSE IF req.method = "POST"
       THEN SubmitEvent("event_edit", u, FormClassEdit(u), id, events[id], req)
       ELSE Respond(Response("event_edit", u, req.method, id, "render"))

\* EventArchiveForm.is_valid(): archive_time is a number of minutes, not
\* negative
ArchiveFormValid(data) == data.archive_time >= 0

\* event.start_time + datetime.timedelta(minutes=minutes)
PlusMinutes(dt, minutes) == Aware(dt.wall + minutes, dt.offset)

event_archive(u, id, req) ==
    /\ UNCHANGED <<users, groups, memberOf, catalog, now, slugCall, inflight>>
    /\ IF ~staff_required(u) \/ ~permission_required(u, "main.change_event_others")
       THEN Respond(Refused("event_archive", u, req, id))
       ELSE IF Cancelled(req)
       THEN Respond([Response("event_archive", u, req.method, id, "redirect:events")
                       EXCEPT !.fields = req.fields])
       ELSE IF id \notin DOMAIN events
       THEN Respond(Response("event_archive", u, req.method, id, "error"))
       ELSE IF req.method = "POST" /\ ArchiveFormValid(req.data)
       THEN Commit(EventSave(DB, id,
                             [events[id] EXCEPT !.archive_time =
                                 PlusMinutes(events[id].start_time,
                                             req.data.archive_time)]),
                   Response("event_archive", u, req.method, id, "redirect:events"))
       ELSE Respond(Response("event_archive", u, req.method, id, "render"))

(***************************************************************************)
(* The views that list events.                                             *)
(***************************************************************************)
\* Event.STATUS_INITIATED, STATUS_SCHEDULED, STATUS_REMOVED
Statuses == {"I", "S", "R"}

\* a lookup on a time field matches no row whose field is null
Before(dt, t) == dt # NullTime /\ Instant(dt) < t
After(dt, t) == dt # NullTime /\ Instant(dt) > t

\* Event.objects.initiated(), upcoming(), live(), archiving() and
\* archived_and_removed() at the instant t
initiated(ev, t) == ev.status = "I"
upcoming(ev, t) == ev.status = "S" /\ After(ev.start_time, t)
Ended(ev, t) == ev.status = "S" /\ ~After(ev.start_time, t) /\ ~After(ev.end_time, t)
live(ev, t) == ev.status = "S" /\ ~After(ev.start_time, t) /\ After(ev.end_time, t)
archiving(ev, t) == Ended(ev, t) /\ After(ev.archive_time, t)
archived_and_removed(ev, t) ==
    ev.status = "R" \/ (Ended(ev, t) /\ ~After(ev.archive_time, t))

\* request.user.is_active: false for a client with no log in
is_active(u) == u \in users

\* the past_events and live_events querysets of home
past_events(ev, u, t) ==
    /\ is_active(u) \/ ev.public
    /\ Before(ev.end_time, t)
    /\ ev.status = "S"

live_events(ev, u, t) ==
    /\ is_active(u) \/ ev.public
    /\ After(ev.end_time, t)
    /\ Before(ev.start_time, t)
    /\ ev.status = "S"

home(u) ==
    /\ UNCHANGED <<users, groups, memberOf, catalog, now, slugCall, inflight>>
    /\ Respond([Response("home", u, "GET", 0, "render")
                  EXCEPT !.listed =
                     [past |-> {e \in DOMAIN events : past_events(events[e], u, now)},
                      live |-> {e \in DOMAIN events : live_events(events[e], u, now)}]])

\* an events view that filters nothing
creator_filter_none(ev, u) == TRUE

\* creator_filter of the events view
creator_filter(ev, u) ==
    has_perm(u, "main.change_event_others") \/ ev.creator = u

\* title__icontains
icontains(title, part) ==
    \E i \in 1..(Len(title) - Len(part) + 1) :
        SubSeq(LowerCase(title), i, i + Len(part) - 1) = LowerCase(part)

\* EventFindForm.is_valid(): a title to look for
FindFormValid(data) == data.title # <<>>

manage_events(u, req) ==
    /\ UNCHANGED <<users, groups, memberOf, catalog, now, slugCall, inflight>>
    /\ IF ~staff_required(u) \/ ~permission_required(u, "main.change_event")
       THEN Respond(Response("events", u, req.method, 0, "redirect:login"))
       ELSE LET shown == {e \in DOMAIN events : creator_filter(events[e], u)}
                search_results ==
                    IF req.method = "POST" /\ FindFormValid(req.data)
                    THEN {e \in shown : icontains(events[e].title, req.data.title)}
                    ELSE {}
            IN Respond([Response("events", u, req.method, 0, "render")
                          EXCEPT !.listed =
                             [search_results |-> search_results,
                              initiated |-> {e \in shown : initiated(events[e], now)},
                              upcoming |-> {e \in shown : upcoming(events[e], now)},
                              live |-> {e \in shown : live(events[e], now)},
                              archiving |-> {e \in shown : archiving(events[e], now)},
                              archived |-> {e \in shown :
                                               archived_and_removed(events[e], now)}]])

(***************************************************************************)
(* Approval review.                                                        *)
(***************************************************************************)
\* request.user.groups.all()
user_groups(u) == IF u \in users THEN memberOf[u] \cap groups ELSE {}

\* Approval.processed_time follows the save of a decision
ProcessedTimeOnSave(t) == t

\* a review that leaves a denied Approval unprocessed
Processed_approved(fields) == "approve" \in fields

\* approval.processed = True
Processed(fields) == TRUE

\* a review that approves whatever was submitted
ApprovalDecision_approved(app, u, fields, t) ==
    [app EXCEPT !.approved = TRUE, !.processed = TRUE, !.user = u,
                !.processed_time = ProcessedTimeOnSave(t)]

\* the decision of approval_review written on the row
ApprovalDecision(app, u, fields, t) ==
    [app EXCEPT !.approved = "approve" \in fields,
                !.processed = Processed(fields),
                !.user = u,
                !.processed_time = ProcessedTimeOnSave(t)]

\* a review without the membership test
NotInGroup_never(app, u) == FALSE

\* approval.group not in request.user.groups.all()
NotInGroup(app, u) == app.group \notin user_groups(u)

approval_review(u, id, req) ==
    LET Reply(outcome) ==
            [Response("approval_review", u, req.method, id, outcome)
               EXCEPT !.fields = req.fields]
    IN
    /\ UNCHANGED <<users, groups, memberOf, catalog, events, oldslugs, nextId,
                   now, slugCall, inflight>>
    /\ IF ~staff_required(u) \/ ~permission_required(u, "main.change_approval")
       THEN /\ last' = Reply("redirect:login")
            /\ UNCHANGED approvals
       ELSE IF id \notin DOMAIN approvals
       THEN /\ last' = Reply("error")
            /\ UNCHANGED approvals
       ELSE IF NotInGroup(approvals[id], u)
       THEN /\ last' = Reply("redirect:approvals")
            /\ UNCHANGED approvals
       ELSE IF req.method = "POST"
       THEN /\ approvals' = [approvals EXCEPT
                               ![id] = ApprovalDecision(@, u, req.fields, now)]
            /\ last' = Reply("redirect:approvals")
       ELSE /\ last' = Reply("render")
            /\ UNCHANGED approvals

(***************************************************************************)
(* Users and groups.                                                       *)
(***************************************************************************)
\* UserEditForm saved: the groups of the user
user_edit(u, id, req) ==
    /\ UNCHANGED <<users, groups, catalog, events, oldslugs, approvals, nextId,
                   now, slugCall, inflight>>
    /\ IF ~staff_required(u) \/ ~permission_required(u, "auth.change_user")
       THEN /\ last' = Refused("user_edit", u, req, 0)
            /\ UNCHANGED memberOf
       ELSE IF Cancelled(req)
       THEN /\ last' = [Response("user_edit", u, req.method, 0, "redirect:users")
                          EXCEPT !.fields = req.fields]
            /\ UNCHANGED memberOf
       ELSE IF id \notin users
       THEN /\ last' = Response("user_edit", u, req.method, 0, "error")
            /\ UNCHANGED memberOf
       ELSE IF req.method = "POST" /\ req.data.groups \subseteq groups
       THEN /\ memberOf' = [memberOf EXCEPT ![id] = req.data.groups]
            /\ last' = Named(Response("user_edit", u, req.method, 0,
                                       "redirect:users"), id)
       ELSE /\ last' = Response("user_edit", u, req.method, 0, "render")
            /\ UNCHANGED memberOf

\* a Group whose deletion takes its Approvals with it
GroupDeleted_cascade(apps, g) == Drop(apps, {a \in DOMAIN apps : apps[a].group = g})

\* Approval.group when its Group row is deleted: the Approval stays, without group
GroupDeleted(apps, g) ==
    [a \in DOMAIN apps |-> IF apps[a].group = g
                           THEN [apps[a] EXCEPT !.group = None] ELSE apps[a]]

group_remove(u, g, req) ==
    /\ UNCHANGED <<users, catalog, events, oldslugs, nextId, now, slugCall, inflight>>
    /\ IF ~staff_required(u) \/ ~permission_required(u, "auth.delete_group")
       THEN /\ last' = Aimed(Response("group_remove", u, req.method, 0,
                                       "redirect:login"), g)
            /\ UNCHANGED <<groups, memberOf, approvals, inflight>>
       ELSE IF IsPost(req) /\ g \notin groups
       THEN /\ last' = Aimed(Response("group_remove", u, req.method, 0, "error"), g)
            /\ UNCHANGED <<groups, memberOf, approvals, inflight>>
       ELSE IF IsPost(req)
       THEN /\ groups' = groups \ {g}
            /\ memberOf' = [x \in DOMAIN memberOf |-> memberOf[x] \ {g}]
            /\ approvals' = GroupDeleted(approvals, g)
            /\ last' = Aimed(Named(Response("group_remove", u, req.method, 0,
                                             "redirect:groups"), g), g)
       ELSE /\ last' = Aimed(Response("group_remove", u, req.method, 0,
                                       "redirect:groups"), g)
            /\ UNCHANGED <<groups, memberOf, approvals, inflight>>

(***************************************************************************)
(* Deleting rows: what the foreign keys of Event, EventOldSlug and         *)
(* Approval do when the row they point at is deleted.                      *)
(***************************************************************************)
AllLocations == {"loc1"}
AllCategories == {"cat7"}
AllTemplates == {"tmpl1"}
AllTags == {"xxx", "test"}
AllParticipants == {"tim", "ann"}

\* a Location, Category or Template whose deletion takes its Events with it
EventRefDeleted_cascade(evs, field, x) ==
    Drop(evs, {e \in DOMAIN evs :
                  \/ field = "location" /\ evs[e].location = x
                  \/ field = "category" /\ evs[e].category = x
                  \/ field = "template" /\ evs[e].template = x})

\* Event.location / category / template: set to null
EventRefDeleted(evs, field, x) ==
    [e \in DOMAIN evs |->
        IF field = "location" /\ evs[e].location = x
        THEN [evs[e] EXCEPT !.location = None]
        ELSE IF field = "category" /\ evs[e].category = x
        THEN [evs[e] EXCEPT !.category = None]
        ELSE IF field = "template" /\ evs[e].template = x
        THEN [evs[e] EXCEPT !.template = None]
        ELSE evs[e]]

\* Event.tags / participants: the row leaves the many-to-many set
EventM2MDeleted(evs, field, x) ==
    [e \in DOMAIN evs |->
        IF field = "tag" THEN [evs[e] EXCEPT !.tags = @ \ {x}]
        ELSE IF field = "participant" THEN [evs[e] EXCEPT !.participants = @ \ {x}]
        ELSE evs[e]]

\* Event.creator / modified_user and Approval.user: set to null
EventUserDeleted(evs, u) ==
    [e \in DOMAIN evs |->
        [evs[e] EXCEPT !.creator = IF @ = u THEN None ELSE @,
                       !.modified_user = IF @ = u THEN None ELSE @]]

ApprovalUserDeleted(apps, u) ==
    [a \in DOMAIN apps |-> IF apps[a].user = u
                           THEN [apps[a] EXCEPT !.user = None] ELSE apps[a]]

\* Approval.event and EventOldSlug.event: the row is deleted with its Event
ApprovalsOfEventDeleted(apps, e) == Drop(apps, {a \in DOMAIN apps : apps[a].event = e})
OldSlugsOfEventDeleted(olds, e) == Drop(olds, {o \in DOMAIN olds : olds[o].event = e})

\* location.delete(), category.delete(), template.delete() of the remove views
RemoveRef(op, perm, redirect, field, u, x, req) ==
    /\ UNCHANGED <<users, groups, memberOf, oldslugs, approvals, nextId, now, slugCall, inflight>>
    /\ IF ~staff_required(u) \/ ~permission_required(u, perm)
       THEN /\ last' = Aimed(Response(op, u, req.method, 0, "redirect:login"), x)
            /\ UNCHANGED <<catalog, events, inflight>>
       ELSE IF IsPost(req) /\ x \notin catalog[field]
       THEN /\ last' = Aimed(Response(op, u, req.method, 0, "error"), x)
            /\ UNCHANGED <<catalog, events, inflight>>
       ELSE IF IsPost(req)
       THEN /\ catalog' = [catalog EXCEPT ![field] = @ \ {x}]
            /\ events' = EventRefDeleted(events, field, x)
            /\ last' = Aimed(Named(Response(op, u, req.method, 0, redirect), x), x)
       ELSE /\ last' = Aimed(Response(op, u, req.method, 0, redirect), x)
            /\ UNCHANGED <<catalog, events, inflight>>

\* LocationEditForm.is_valid(): a name and a time zone of the choices
LocationFormValid(data) == data.name # "" /\ data.timezone \in Zones

location_new(u, req) ==
    LET Reply(outcome) ==
            [Response("location_new", u, req.method, 0, outcome)
               EXCEPT !.fields = req.fields]
    IN
    /\ UNCHANGED <<users, groups, memberOf, events, oldslugs, approvals, nextId,
                   now, slugCall, inflight>>
    /\ IF ~staff_required(u) \/ ~permission_required(u, "main.add_location")
       THEN last' = Reply("redirect:login") /\ UNCHANGED catalog
       ELSE IF Cancelled(req)
       THEN last' = Reply("redirect:home") /\ UNCHANGED catalog
       ELSE IF req.method = "POST" /\ LocationFormValid(req.data)
       THEN /\ catalog' = [catalog EXCEPT !.location = @ \cup {req.data.name}]
            /\ last' = Aimed(Reply(IF has_perm(u, "main.change_location")
                                   THEN "redirect:locations" ELSE "redirect:home"),
                             req.data.name)
       ELSE last' = Reply("render") /\ UNCHANGED catalog

location_remove(u, x, req) ==
    RemoveRef("location_remove", "main.delete_location", "redirect:locations",
              "location", u, x, req)
category_remove(u, x, req) ==
    RemoveRef("category_remove", "main.delete_category", "redirect:categories",
              "category", u, x, req)
template_remove(u, x, req) ==
    RemoveRef("template_remove", "main.delete_template", "redirect:templates",
              "template", u, x, req)

\* participant.creator: one participant entered by the organizer, one by
\* the superuser
ParticipantCreator(x) == IF x = "tim" THEN "organizer" ELSE "admin"

\* the user has main.change_participant_others or created the participant
MayRemoveParticipant(u, x) ==
    has_perm(u, "main.change_participant_others") \/ ParticipantCreator(x) = u

participant_remove(u, x, req) ==
    LET Reply(outcome) ==
            Aimed(Response("participant_remove", u, req.method, 0, outcome), x)
    IN
    /\ UNCHANGED <<users, groups, memberOf, oldslugs, approvals, nextId, now, slugCall, inflight>>
    /\ IF ~staff_required(u) \/ ~permission_required(u, "main.delete_participant")
       THEN /\ last' = Reply("redirect:login")
            /\ UNCHANGED <<catalog, events, inflight>>
       ELSE IF IsPost(req) /\ x \notin catalog.participant
       THEN /\ last' = Reply("error")
            /\ UNCHANGED <<catalog, events, inflight>>
       ELSE IF IsPost(req) /\ MayRemoveParticipant(u, x)
       THEN /\ catalog' = [catalog EXCEPT !.participant = @ \ {x}]
            /\ events' = EventM2MDeleted(events, "participants", x)
            /\ last' = Named(Reply("redirect:participants"), x)
       ELSE /\ last' = Reply("redirect:participants")
            /\ UNCHANGED <<catalog, events, inflight>>

\* str(uuid.uuid4()): some token, not empty
Tokens == {"t1", "t2"}

\* a participant_email that makes a token at every request
NeedsToken_always(token) == TRUE

\* not participant.clear_token
NeedsToken(token) == token = NoToken

participant_email(u, x, req) ==
    LET Reply(outcome) ==
            Aimed([Response("participant_email", u, req.method, 0, outcome)
                     EXCEPT !.fields = req.fields], x)
    IN
    /\ UNCHANGED <<users, groups, memberOf, events, oldslugs, approvals, nextId,
                   now, slugCall, inflight>>
    /\ IF ~staff_required(u) \/ ~permission_required(u, "main.change_participant")
       THEN last' = Reply("redirect:login") /\ UNCHANGED catalog
       ELSE IF Cancelled(req)
       THEN last' = Reply("redirect:participants") /\ UNCHANGED catalog
       ELSE IF x \notin catalog.participant
       THEN last' = Reply("error") /\ UNCHANGED catalog
       ELSE IF ~MayRemoveParticipant(u, x)
       THEN last' = Reply("redirect:participants") /\ UNCHANGED catalog
       ELSE /\ IF NeedsToken(catalog.clear_token[x])
               THEN \E token \in Tokens :
                       catalog' = [catalog EXCEPT !.clear_token[x] = token]
               ELSE UNCHANGED catalog
            /\ last' = IF req.method = "POST"
                       THEN [Reply("redirect:participants")
                               EXCEPT !.notified = {[group |-> None, to |-> {x}]}]
                       ELSE Reply("render")

\* obj.delete() on a Tag or a Participant
DeleteM2M(op, field, x) ==
    /\ x \in catalog[field]
    /\ catalog' = [catalog EXCEPT ![field] = @ \ {x}]
    /\ events' = EventM2MDeleted(events, field, x)
    /\ last' = Named(Response(op, None, "", 0, "deleted"), x)
    /\ UNCHANGED <<users, groups, memberOf, oldslugs, approvals, nextId, now, slugCall, inflight>>

\* event.delete()
DeleteEvent(e) ==
    /\ e \in DOMAIN events
    /\ events' = Drop(events, {e})
    /\ approvals' = ApprovalsOfEventDeleted(approvals, e)
    /\ oldslugs' = OldSlugsOfEventDeleted(oldslugs, e)
    /\ last' = Response("delete_event", None, "", e, "deleted")
    /\ UNCHANGED <<users, groups, memberOf, catalog, nextId, now, slugCall, inflight>>

\* user.delete()
DeleteUser(u) ==
    /\ u \in users
    /\ users' = users \ {u}
    /\ memberOf' = [memberOf EXCEPT ![u] = {}]
    /\ events' = EventUserDeleted(events, u)
    /\ approvals' = ApprovalUserDeleted(approvals, u)
    /\ last' = Named(Response("delete_user", None, "", 0, "deleted"), u)
    /\ UNCHANGED <<groups, catalog, oldslugs, nextId, now, slugCall, inflight>>

\* approval.delete() and oldslug.delete()
DeleteApproval(a) ==
    /\ a \in DOMAIN approvals
    /\ approvals' = Drop(approvals, {a})
    /\ last' = Response("delete_approval", None, "", a, "deleted")
    /\ UNCHANGED <<users, groups, memberOf, catalog, events, oldslugs, nextId, now,
                   slugCall, inflight>>

DeleteOldSlug(o) ==
    /\ o \in DOMAIN oldslugs
    /\ oldslugs' = Drop(oldslugs, {o})
    /\ last' = Response("delete_oldslug", None, "", o, "deleted")
    /\ UNCHANGED <<users, groups, memberOf, catalog, events, approvals, nextId, now,
                   slugCall, inflight>>

\* time passes between two requests
Tick ==
    /\ now < MaxTime
    /\ now' = now + 1
    /\ last' = Response("tick", None, "", 0, "")
    /\ UNCHANGED <<users, groups, memberOf, catalog, events, oldslugs, approvals,
                   nextId, slugCall, inflight>>

(***************************************************************************)
(* The initial records: the users, the groups and the rows events choose   *)
(* from; no Event yet, and no call of unique_slugify.                      *)
(***************************************************************************)
NoCall == [data |-> <<>>, models |-> <<>>, duplicate_key |-> <<>>,
           slug |-> <<>>, returned |-> FALSE]

\* the accounts and the rows of the fixtures
AccountsIn(membership) ==
    /\ users = DOMAIN membership
    /\ groups = AllGroups
    /\ memberOf = membership
    /\ catalog = [location |-> AllLocations, category |-> AllCategories,
                  template |-> AllTemplates, tag |-> AllTags,
                  participant |-> AllParticipants,
                  clear_token |-> [x \in AllParticipants |-> NoToken]]
    /\ now = 0
    /\ last = Response("init", None, "", 0, "")
    /\ inflight = <<>>

Accounts == AccountsIn([u \in AllUsers |-> {}])

NoEvents ==
    /\ events = <<>>
    /\ oldslugs = <<>>
    /\ approvals = <<>>
    /\ nextId = [event |-> 1, approval |-> 1, oldslug |-> 1]

Init == Accounts /\ NoEvents /\ slugCall = NoCall

(***************************************************************************)
(* The approval workflow: events are requested and edited with their       *)
(* approvals, approvals are reviewed, groups and events are deleted.       *)
(***************************************************************************)
Actors == AllUsers \cup {Anonymous}
Methods == {"GET", "POST"}

\* a run creates no more rows than these
Bounded(maxEvents, maxApprovals, maxOldSlugs) ==
    /\ nextId.event <= maxEvents + 1
    /\ nextId.approval <= maxApprovals + 1
    /\ nextId.oldslug <= maxOldSlugs + 1

\* the user of the workflow: the superuser, who requests, edits and reviews
WorkflowActors == {"admin"}

\* the groups the workflow asks for approval
WorkflowGroups == {"A", "B"}

\* the event forms as the workflow submits them: the title and date of the
\* fixture, the slug field as the form showed it
EventData(id, titles, desired) ==
    [complete : {TRUE}, title : titles,
     slug : {IF id \in DOMAIN events THEN events[id].slug ELSE <<>>},
     start_time : {FixtureStart}, timezone : {"UTC"}, approvals : desired]

WorkflowRequests(id) ==
    [method : {"POST"}, fields : {{}},
     data : EventData(id, {<<"a">>}, SUBSET WorkflowGroups)]

ReviewRequests ==
    {[method |-> "GET", fields |-> {}], [method |-> "POST", fields |-> {}],
     [method |-> "POST", fields |-> {"approve"}]}

UserEditRequests(G) ==
    [method : {"POST"}, fields : {{}}, data : [groups : SUBSET G]]

Post == [method |-> "POST", fields |-> {}]

\* the events of a group that was deleted: three groups, so that an event can
\* hold two Approvals without group beside one with a group
OrphanRequests(id) ==
    [method : {"POST"}, fields : {{}},
     data : EventData(id, {<<"a">>}, SUBSET AllGroups)]

NextOrphans ==
    \/ /\ nextId.event <= MaxEvents
       /\ \E req \in OrphanRequests(0) :
             event_request("admin", req)
                /\ Bounded(MaxEvents, MaxOrphanApprovals, MaxOldSlugs)'
    \/ \E id \in DOMAIN events :
          \E req \in OrphanRequests(id) :
             event_edit("admin", id, req)
                /\ Bounded(MaxEvents, MaxOrphanApprovals, MaxOldSlugs)'
    \/ \E g \in groups : group_remove("admin", g, Post)

SpecOrphans == Init /\ [][NextOrphans]_vars

\* reviewing on the clock: one group, its members, and time passing
ReviewData(id) == EventData(id, {<<"a">>}, SUBSET {"A"})

NextReview ==
    \/ /\ nextId.event <= MaxEvents
       /\ \E req \in [method : {"POST"}, fields : {{}}, data : ReviewData(0)] :
             event_request("admin", req)
                /\ Bounded(MaxEvents, MaxApprovals, MaxOldSlugs)'
    \/ \E id \in DOMAIN events :
          \E req \in [method : {"POST"}, fields : {{}}, data : ReviewData(id)] :
             event_edit("admin", id, req)
                /\ Bounded(MaxEvents, MaxApprovals, MaxOldSlugs)'
    \/ \E u \in Actors, id \in DOMAIN approvals, req \in ReviewRequests :
          approval_review(u, id, req)
    \/ \E req \in UserEditRequests({"A"}) : user_edit("admin", "admin", req)
    \/ Tick

SpecReview == Init /\ [][NextReview]_vars

\* the reviewers: the superuser, a staff user without the permission and a
\* client with no log in
ReviewActors == {"admin", "organizer", Anonymous}

\* the group the superuser joins and leaves
JoinedGroups == {"A"}

Next ==
    \/ /\ nextId.event <= MaxEvents
       /\ \E u \in WorkflowActors, req \in WorkflowRequests(0) :
             event_request(u, req) /\ Bounded(MaxEvents, MaxApprovals, MaxOldSlugs)'
    \/ \E u \in WorkflowActors, id \in DOMAIN events :
          \E req \in WorkflowRequests(id) :
             event_edit(u, id, req) /\ Bounded(MaxEvents, MaxApprovals, MaxOldSlugs)'
    \/ \E u \in ReviewActors, id \in DOMAIN approvals, req \in ReviewRequests :
          approval_review(u, id, req)
    \/ \E req \in UserEditRequests(JoinedGroups) : user_edit("admin", "admin", req)
    \/ \E g \in groups \cap WorkflowGroups : group_remove("admin", g, Post)
    \/ \E e \in DOMAIN events : DeleteEvent(e)

Spec == Init /\ [][Next]_vars

(***************************************************************************)
(* The approval workflow's claims.                                         *)
(***************************************************************************)
\* the groups that hold an Approval of the event
ApprovalGroups(apps, id) == approvals_old(apps, id) \ {None}

\* the last request ran _event_process with the approvals field
Reconciled(r) == r.op \in {"event_request", "event_edit"} /\ r.field

\* C1: after _event_process has run with an approvals field, the groups that
\* hold an Approval of the event are exactly the desired set D, and every
\* Approval whose group is in D and was in the current set S keeps its
\* approved, processed and user values.
C1_ReconciledToDesired ==
    [][Reconciled(last') =>
          /\ ApprovalGroups(approvals', last'.id) = last'.D
          /\ \A a \in approval_set(approvals, last'.id) :
                approvals[a].group \in last'.D =>
                   /\ a \in DOMAIN approvals'
                   /\ approvals'[a].approved = approvals[a].approved
                   /\ approvals'[a].processed = approvals[a].processed
                   /\ approvals'[a].user = approvals[a].user]_vars

\* C2: no two Approval rows have the same event and the same group.
C2_OneApprovalPerEventGroup ==
    \A a, b \in DOMAIN approvals :
        (/\ approvals[a].event = approvals[b].event
         /\ approvals[a].group = approvals[b].group
         /\ approvals[a].group # None) => a = b

\* an event was edited with a desired set that holds a group whose Approval
\* was reviewed before, beside another Approval
C2_Witness ==
    /\ last.op = "event_edit" /\ last.field
    /\ \E a, b \in approval_set(approvals, last.id) :
          /\ a # b
          /\ approvals[a].processed
          /\ approvals[a].group \in last.D

\* C3: approval_review, GET or POST, by a staff user with the change_approval
\* permission who is not in the approval's group redirects to the approvals
\* list and leaves every Approval row as it was.
C3_NonMemberRejected ==
    [][(/\ last'.op = "approval_review"
        /\ last'.id \in DOMAIN approvals
        /\ staff_required(last'.user)
        /\ permission_required(last'.user, "main.change_approval")
        /\ approvals[last'.id].group \notin user_groups(last'.user))
       => /\ last'.outcome = "redirect:approvals"
          /\ approvals' = approvals]_vars

\* a decision was posted by a user outside the group of a pending Approval
C3_Witness ==
    /\ last.op = "approval_review" /\ last.method = "POST"
    /\ last.outcome = "redirect:approvals"
    /\ "approve" \in last.fields
    /\ last.id \in DOMAIN approvals
    /\ approvals[last.id].group \in groups
    /\ approvals[last.id].group \notin user_groups(last.user)
    /\ ~approvals[last.id].processed

\* the last request was a decision posted by a member of the approval's group
DecisionPosted ==
    /\ last.op = "approval_review" /\ last.method = "POST"
    /\ last.outcome = "redirect:approvals"
    /\ last.id \in DOMAIN approvals
    /\ approvals[last.id].group \in user_groups(last.user)

\* C4: after a member of the approval's group posts a decision, the Approval
\* has approved true exactly when 'approve' was posted, processed true,
\* processed_time the time of the request, and user the reviewer.
C4_DecisionRecorded ==
    DecisionPosted =>
        /\ approvals[last.id].approved = ("approve" \in last.fields)
        /\ approvals[last.id].processed
        /\ approvals[last.id].processed_time = now
        /\ approvals[last.id].user = last.user

\* an Approval approved earlier was denied at a later time
C4_Witness ==
    /\ DecisionPosted
    /\ "approve" \notin last.fields
    /\ now > 0
    /\ ~approvals[last.id].approved
    /\ approvals[last.id].processed_time = now

(***************************************************************************)
(* unique_slugify as a function: a call is drawn, then it returns.         *)
(***************************************************************************)
\* the characters of the source strings drawn
Alphabet == {"a", "A", "1", " ", "-", "!"}

Strings(n) == UNION {[1..k -> Alphabet] : k \in 0..n}

\* 'Test Event', the title of the tests' event
TestEvent == <<"T", "e", "s", "t", " ", "E", "v", "e", "n", "t">>

WithSuffix(base, suffix) == base \o <<"-">> \o suffix

\* the slugs a collection may hold when the call is made: the candidates the
\* loop can visit, and the first counter value either way
SlugPool(data, duplicate_key) ==
    LET base == slugify(data) IN
    IF duplicate_key = <<>>
    THEN {base, WithSuffix(base, IntToStr(1)), WithSuffix(base, IntToStr(2))}
    ELSE {base, WithSuffix(base, duplicate_key),
          WithSuffix(WithSuffix(base, duplicate_key), IntToStr(1)),
          WithSuffix(WithSuffix(base, duplicate_key), IntToStr(2))}

\* one collection, or two as Event and EventOldSlug
CollectionLists(pool) ==
    {<<S>> : S \in SUBSET pool} \cup
    {<<S, T>> : S \in SUBSET pool, T \in SUBSET pool}

\* the calls drawn: a source string, no key or the date of the fixture, and
\* the collections
InitSlugify ==
    /\ Accounts
    /\ NoEvents
    /\ \E d \in Strings(MaxDataLen) \cup {TestEvent},
          k \in {<<>>, StrfDate(Aware(FixtureStart, 0))} :
          \E m \in CollectionLists(SlugPool(d, k)) :
             slugCall = [data |-> d, models |-> m, duplicate_key |-> k,
                         slug |-> <<>>, returned |-> FALSE]

CallUniqueSlugify ==
    /\ ~slugCall.returned
    /\ slugCall' = [slugCall EXCEPT
                      !.slug = unique_slugify(slugCall.data, slugCall.models,
                                              slugCall.duplicate_key),
                      !.returned = TRUE]
    /\ UNCHANGED <<users, groups, memberOf, catalog, events, oldslugs, approvals,
                   nextId, now, last, inflight>>

NextSlugify == CallUniqueSlugify

SpecSlugify == InitSlugify /\ [][NextSlugify]_vars

\* the slug is held by a row of one of the collections of the call
Held(slug) == \E i \in DOMAIN slugCall.models : slug \in slugCall.models[i]

\* C7: the slug unique_slugify returns is held by no row of any of the
\* collections it was given.
C7_ReturnedSlugIsFree ==
    slugCall.returned =>
        \A i \in DOMAIN slugCall.models : slugCall.slug \notin slugCall.models[i]

\* a call with a duplicate key and two collections that had to count: the base
\* slug is held by the second collection only, the slug with the key by the first
C7_Witness ==
    /\ slugCall.returned
    /\ Len(slugCall.models) = 2
    /\ slugCall.duplicate_key # <<>>
    /\ slugify(slugCall.data) \in slugCall.models[2] \ slugCall.models[1]
    /\ WithSuffix(slugify(slugCall.data), slugCall.duplicate_key)
          \in slugCall.models[1] \ slugCall.models[2]
    /\ slugCall.slug \notin {slugify(slugCall.data),
                             WithSuffix(slugify(slugCall.data), slugCall.duplicate_key)}

\* the base slug with the key, and that slug with counter n
Keyed == WithSuffix(slugify(slugCall.data), slugCall.duplicate_key)
Counted(n) == WithSuffix(Keyed, IntToStr(n))

\* the slug is the keyed slug with the least counter from first on that is free
CountedFrom(first) ==
    \E n \in first..(first + Cardinality(UNION {slugCall.models[i] :
                                                   i \in DOMAIN slugCall.models})) :
        /\ slugCall.slug = Counted(n)
        /\ ~Held(Counted(n))
        /\ \A m \in first..(n - 1) : Held(Counted(m))

KeyedCall ==
    /\ slugCall.returned
    /\ slugCall.duplicate_key # <<>>
    /\ Held(slugify(slugCall.data))

\* C8 as stated: with the base slug taken and a key given, the result is
\* base-key if that is free, and otherwise base-key with a counter that
\* starts at 1 ('test-event-20120304-1').
C8_CounterStartsAtOne ==
    KeyedCall => IF ~Held(Keyed) THEN slugCall.slug = Keyed ELSE CountedFrom(1)

\* C8 (amended): with the base slug taken and a key given, the result is
\* base-key if that is free, and otherwise base-key with a counter that
\* starts at 2 ('test-event-20120304-2'): the step that appends the key
\* has used counter value 1.
C8_CounterStartsAtTwo ==
    KeyedCall => IF ~Held(Keyed) THEN slugCall.slug = Keyed ELSE CountedFrom(2)

\* 'Test Event' with 'test-event' and 'test-event-20120304' taken
C8_Witness ==
    /\ slugCall.returned
    /\ slugCall.data = TestEvent
    /\ slugCall.duplicate_key = <<"2", "0", "1", "2", "0", "3", "0", "4">>
    /\ Held(<<"t", "e", "s", "t", "-", "e", "v", "e", "n", "t">>)
    /\ Held(<<"t", "e", "s", "t", "-", "e", "v", "e", "n", "t", "-",
              "2", "0", "1", "2", "0", "3", "0", "4">>)
    /\ slugCall.slug = <<"t", "e", "s", "t", "-", "e", "v", "e", "n", "t", "-",
                         "2", "0", "1", "2", "0", "3", "0", "4", "-", "2">>

(***************************************************************************)
(* Deleting the rows of the fixture: two Events with every reference set,  *)
(* their Approvals and their old slugs.                                    *)
(***************************************************************************)
FixtureEvent ==
    [title |-> <<"a">>, slug |-> <<"a">>,
     start_time |-> Aware(FixtureStart, 0), archive_time |-> NullTime,
     end_time |-> NullTime, status |-> "S", public |-> FALSE,
     creator |-> "organizer", modified_user |-> "admin",
     location |-> "loc1", category |-> "cat7", template |-> "tmpl1",
     tags |-> AllTags, participants |-> AllParticipants]

FixtureApproval(id, group, user) ==
    [event |-> id, group |-> group, user |-> user, approved |-> user # None,
     processed |-> user # None,
     processed_time |-> IF user # None THEN 0 ELSE NoTime]

InitFixture ==
    /\ Accounts
    /\ events = <<FixtureEvent,
                  [FixtureEvent EXCEPT !.title = <<"b">>, !.slug = <<"b">>]>>
    /\ oldslugs = <<[event |-> 1, slug |-> <<"a", "a">>],
                    [event |-> 2, slug |-> <<"b", "b">>]>>
    /\ approvals = <<FixtureApproval(1, "A", "admin"),
                     FixtureApproval(1, "B", None),
                     FixtureApproval(2, "A", "organizer")>>
    /\ nextId = [event |-> Len(events) + 1, approval |-> Len(approvals) + 1,
                 oldslug |-> Len(oldslugs) + 1]
    /\ slugCall = NoCall

\* what deleting an Event, a Group or a User does to the Approvals
NextCascade ==
    \/ \E e \in DOMAIN events : DeleteEvent(e)
    \/ \E g \in groups : group_remove("admin", g, Post)
    \/ \E u \in users : DeleteUser(u)

SpecCascade == InitFixture /\ [][NextCascade]_vars

\* deleting the rows an Event refers to, and the rows that refer to it
NextFK ==
    \/ \E x \in AllLocations, m \in Methods :
          location_remove("admin", x, [method |-> m, fields |-> {}])
    \/ \E x \in AllCategories : category_remove("admin", x, Post)
    \/ \E x \in AllTemplates : template_remove("admin", x, Post)
    \/ \E x \in AllTags : DeleteM2M("delete_tag", "tag", x)
    \/ \E x \in AllParticipants : DeleteM2M("delete_participant", "participant", x)
    \/ \E o \in DOMAIN oldslugs : DeleteOldSlug(o)
    \/ \E a \in DOMAIN approvals : DeleteApproval(a)
    \/ \E u \in {"organizer", "admin"} : DeleteUser(u)

SpecFK == InitFixture /\ [][NextFK]_vars

\* C5: deleting an Event deletes every Approval and every EventOldSlug that
\* refers to it; deleting a Group or a User that an Approval refers to leaves
\* every Approval in existence.
C5_EventCascadesGroupUserDoNot ==
    [][/\ last'.op = "delete_event" =>
             /\ last'.id \notin DOMAIN events'
             /\ \A a \in DOMAIN approvals' : approvals'[a].event # last'.id
             /\ \A o \in DOMAIN oldslugs' : oldslugs'[o].event # last'.id
       /\ (last'.op \in {"group_remove", "delete_user"} /\ last'.name # None) =>
             /\ last'.name \notin groups' \cup users'
             /\ DOMAIN approvals' = DOMAIN approvals]_vars

\* Event 1 was deleted after group A and the organizer: its two Approvals and
\* its old slug went with it, the Approval of Event 2 is there without its
\* group and without its user
C5_Witness ==
    /\ last.op = "delete_event" /\ last.id = 1
    /\ DOMAIN events = {2}
    /\ DOMAIN approvals = {3}
    /\ approvals[3].group = None /\ approvals[3].user = None
    /\ DOMAIN oldslugs = {2}

\* the operations that delete a row an Event refers to or a row of an Event
DeletesAroundEvent ==
    {"location_remove", "category_remove", "template_remove", "delete_tag",
     "delete_participant", "delete_oldslug", "delete_approval", "delete_user"}

\* C6: deleting a Template, Location, Category, Tag, Participant,
\* EventOldSlug, Approval or the creator / modifier User deletes no Event,
\* and after a Location is deleted the Events that were there have no location.
C6_EventSurvivesDeletes ==
    [][last'.op \in DeletesAroundEvent =>
          /\ DOMAIN events' = DOMAIN events
          /\ (last'.op = "location_remove" /\ last'.name # None) =>
                /\ last'.name \notin catalog'.location
                /\ \A e \in DOMAIN events :
                      events[e].location = last'.name => events'[e].location = None]_vars

\* the Location, the template, every tag, the old slug and the Approvals of
\* Event 1 were deleted, then its creator and its modifier: Event 1 is there
\* with no location
C6_Witness ==
    /\ last.op = "delete_user"
    /\ "loc1" \notin catalog.location
    /\ 1 \in DOMAIN events
    /\ events[1].location = None /\ events[1].template = None
    /\ events[1].creator = None /\ events[1].modified_user = None
    /\ events[1].tags = {}
    /\ 1 \notin DOMAIN oldslugs
    /\ 1 \notin DOMAIN approvals

(***************************************************************************)
(* Slugs of events: events are requested and edited with a title and a     *)
(* slug field that is left empty, left as shown or typed in.               *)
(***************************************************************************)
\* two titles of the same slug
SlugTitles == {<<"a">>, <<"A", "!">>}

SlugRequests(id) ==
    [method : {"POST"}, fields : {{}},
     data : [complete : {TRUE}, title : SlugTitles,
             slug : {<<>>, <<"b">>} \cup
                    {events[e].slug : e \in DOMAIN events \cap {id}},
             start_time : {FixtureStart}, timezone : {"UTC"},
             approvals : {{}}]]

NextSlug ==
    \/ /\ nextId.event <= MaxSlugEvents
       /\ \E req \in SlugRequests(0) :
             event_request("admin", req)
                /\ Bounded(MaxSlugEvents, MaxApprovals, MaxOldSlugs)'
    \/ \E id \in DOMAIN events :
          \E req \in SlugRequests(id) :
             event_edit("admin", id, req)
                /\ Bounded(MaxSlugEvents, MaxApprovals, MaxOldSlugs)'
    \/ \E e \in DOMAIN events : DeleteEvent(e)

SpecSlug == Init /\ [][NextSlug]_vars

C10_OldSlugOnSlugChange ==
    [][/\ \A e \in DOMAIN events \cap DOMAIN events' :
             events'[e].slug # events[e].slug =>
                /\ last'.op = "event_edit" /\ last'.id = e
                /\ \E o \in DOMAIN oldslugs' \ DOMAIN oldslugs :
                      oldslugs'[o] = [event |-> e, slug |-> events[e].slug]
       /\ \A o \in DOMAIN oldslugs' \ DOMAIN oldslugs :
             /\ last'.op = "event_edit"
             /\ oldslugs'[o].event = last'.id
             /\ last'.id \in DOMAIN events
             /\ oldslugs'[o].slug = events[last'.id].slug
             /\ events'[last'.id].slug # events[last'.id].slug]_vars

\* an event was edited twice with another slug: both previous slugs are kept
C10_Witness ==
    /\ last.op = "event_edit"
    /\ last.id \in DOMAIN events
    /\ \E o, q \in DOMAIN oldslugs :
          /\ o # q
          /\ oldslugs[o].event = last.id /\ oldslugs[q].event = last.id
          /\ events[last.id].slug \notin {oldslugs[o].slug, oldslugs[q].slug}

(***************************************************************************)
(* Time zones: events are requested and edited with a start time typed in  *)
(* as wall-clock time and the name of a time zone.                         *)
(***************************************************************************)
\* the times of test_timezones, and the skipped and the repeated hour of the
\* US zones
SubmittedTimes ==
    {At(8, 3, 12), At(11, 30, 3), At(8, 3, 15), At(12, 25, 15),
     At(3, 11, 2), At(11, 4, 1)}

\* the names submitted: the zones of test_timezones, and a name pytz does not
\* know
SubmittedZones == {"US/Eastern", "US/Pacific", "Europe/Paris", "Mars/Olympus"}

EventForms(id, times, zones, desired) ==
    [method : {"POST"}, fields : {{}},
     data : [complete : {TRUE}, title : {<<"a">>},
             slug : {IF id \in DOMAIN events THEN events[id].slug ELSE <<>>},
             start_time : times, timezone : zones, approvals : desired]]

TimezoneRequests(id) == EventForms(id, SubmittedTimes, SubmittedZones, {{}})

NextTimezone ==
    \/ /\ nextId.event <= MaxEvents
       /\ \E req \in TimezoneRequests(0) :
             event_request("admin", req)
                /\ Bounded(MaxEvents, MaxApprovals, MaxOldSlugs)'
    \/ \E id \in DOMAIN events :
          \E req \in TimezoneRequests(id) :
             event_edit("admin", id, req)
                /\ Bounded(MaxEvents, MaxApprovals, MaxOldSlugs)'

SpecTimezone == Init /\ [][NextTimezone]_vars

\* forms with a zone or a name that is none, a summer or a winter time, and a
\* desired set of groups
BadZoneRequests(id) ==
    EventForms(id, {At(8, 3, 12), At(11, 30, 3), At(12, 25, 15)},
               {"US/Eastern", "Europe/Paris", "Mars/Olympus"},
               SUBSET JoinedGroups)

NextBadZone ==
    \/ /\ nextId.event <= MaxEvents
       /\ \E req \in BadZoneRequests(0) :
             event_request("admin", req)
                /\ Bounded(MaxEvents, MaxApprovals, MaxOldSlugs)'
    \/ \E id \in DOMAIN events :
          \E req \in BadZoneRequests(id) :
             event_edit("admin", id, req)
                /\ Bounded(MaxEvents, MaxApprovals, MaxOldSlugs)'

SpecBadZone == Init /\ [][NextBadZone]_vars

\* the last request was an event request or edit that was saved, with this
\* start time and this zone
SavedWith(wall, zone) ==
    /\ last.op \in {"event_request", "event_edit"}
    /\ last.outcome = "redirect:events"
    /\ last.start = wall /\ last.zone = zone
    /\ last.id \in DOMAIN events

\* the days on which the zone is on daylight time from midnight to midnight
SummerDay(wall, zone) ==
    IF zone = "Europe/Paris"
    THEN At(3, 26, 0) <= wall /\ wall < At(10, 28, 0)
    ELSE zone \in {"US/Eastern", "US/Pacific"} /\ At(3, 12, 0) <= wall /\ wall < At(11, 4, 0)

\* the days on which the zone is on standard time from midnight to midnight
WinterDay(wall, zone) ==
    IF zone = "Europe/Paris"
    THEN wall < At(3, 25, 0) \/ At(10, 29, 0) <= wall
    ELSE IF zone \in {"US/Eastern", "US/Pacific"}
    THEN wall < At(3, 11, 0) \/ At(11, 5, 0) <= wall
    ELSE TRUE

\* C11: the stored start_time is the UTC instant of the submitted wall-clock
\* time in the submitted zone, with the offset in force on that date:
\* 2012-08-03 12:00 US/Eastern is 16:00 UTC, 2012-11-30 03:00 Europe/Paris is
\* 02:00 UTC, 2012-08-03 15:00 US/Pacific is 22:00 UTC and 2012-12-25 15:00
\* US/Pacific is 23:00 UTC.
C11_StartTimeInUTC ==
    /\ SavedWith(At(8, 3, 12), "US/Eastern") =>
          events[last.id].start_time = Aware(At(8, 3, 16), 0)
    /\ SavedWith(At(11, 30, 3), "Europe/Paris") =>
          events[last.id].start_time = Aware(At(11, 30, 2), 0)
    /\ SavedWith(At(8, 3, 15), "US/Pacific") =>
          events[last.id].start_time = Aware(At(8, 3, 22), 0)
    /\ SavedWith(At(12, 25, 15), "US/Pacific") =>
          events[last.id].start_time = Aware(At(12, 25, 23), 0)
    /\ \A wall \in SubmittedTimes, zone \in Zones :
          SavedWith(wall, zone) =>
             /\ events[last.id].start_time.offset = 0
             /\ SummerDay(wall, zone) =>
                   events[last.id].start_time.wall = wall - DstOffset(zone)
             /\ WinterDay(wall, zone) =>
                   events[last.id].start_time.wall = wall - StdOffset(zone)

\* an event requested in another zone was edited to 2012-12-25 15:00 US/Pacific
C11_Witness ==
    /\ SavedWith(At(12, 25, 15), "US/Pacific")
    /\ last.op = "event_edit"
    /\ events[last.id].start_time = Aware(At(12, 25, 23), 0)

\* C12: an event request or edit submitted with a time zone name that is not
\* a zone ends with the form shown again, and no Event and no Approval is
\* created or modified.
C12_UnknownZoneRejected ==
    [][(/\ last'.op \in {"event_request", "event_edit"}
        /\ last'.zone # None
        /\ last'.zone \notin Zones)
       => /\ last'.outcome = "render"
          /\ events' = events
          /\ approvals' = approvals]_vars

\* an edit with an unknown zone, another start time and another desired set
\* than the event has
C12_Witness ==
    /\ last.op = "event_edit" /\ last.outcome = "render"
    /\ last.zone = "Mars/Olympus"
    /\ last.id \in DOMAIN events
    /\ events[last.id].start_time # ToDB(localize(last.start, "UTC"))
    /\ approval_set(approvals, last.id) # {}

(***************************************************************************)
(* Archive time (C13): requests, edits and archive settings of one event.  *)
(***************************************************************************)
\* the minutes posted to the archive page
ArchiveMinutes == {0, MinutesPerHour, 2 * MinutesPerHour}

ArchiveRequests ==
    [method : {"POST"}, fields : {{}}, data : [archive_time : ArchiveMinutes]]

\* start times an hour apart and one in winter, read in UTC, in a zone west
\* and in a zone east of it
ArchiveEventForms(id) ==
    EventForms(id, {At(8, 3, 12), At(8, 3, 13), At(12, 25, 15)},
               {"UTC", "US/Eastern", "Europe/Paris"}, {{}})

\* the rows followed: an archive_time within MaxArchiveShift hours of the
\* start_time
ArchiveNear ==
    \A e \in DOMAIN events :
        events[e].archive_time # NullTime =>
            LET shift == Instant(events[e].archive_time) - Instant(events[e].start_time)
            IN /\ shift <= MaxArchiveShift * MinutesPerHour
               /\ -shift <= MaxArchiveShift * MinutesPerHour

NextArchive ==
    \/ /\ nextId.event <= MaxEvents
       /\ \E req \in ArchiveEventForms(0) :
             event_request("admin", req)
                /\ Bounded(MaxEvents, MaxApprovals, MaxOldSlugs)'
    \/ \E id \in DOMAIN events :
          \E req \in ArchiveEventForms(id) :
             event_edit("admin", id, req)
                /\ Bounded(MaxEvents, MaxApprovals, MaxOldSlugs)'
                /\ ArchiveNear'
    \/ \E id \in DOMAIN events :
          \E req \in ArchiveRequests : event_archive("admin", id, req)

SpecArchive == Init /\ [][NextArchive]_vars

\* C13: whenever an event's archive_time is set, it is not before the event's
\* start_time, after any sequence of event requests, edits and archive
\* settings.
C13_ArchiveNotBeforeStart ==
    \A e \in DOMAIN events :
        events[e].archive_time # NullTime =>
            Instant(events[e].archive_time) >= Instant(events[e].start_time)

(***************************************************************************)
(* The lifecycle buckets (C14): an event with any status and times, listed *)
(* by the two views as the clock runs.                                     *)
(***************************************************************************)
Clock == 0..MaxTime
ClockTimes == {Aware(t, 0) : t \in Clock}

InitLifecycle ==
    /\ Accounts
    /\ \E status \in Statuses, start \in ClockTimes, public \in BOOLEAN :
         \E end \in {t \in ClockTimes : Instant(t) >= Instant(start)} :
            \E archive \in ClockTimes \cup {NullTime} :
               events = <<[FixtureEvent EXCEPT !.status = status,
                                               !.start_time = start,
                                               !.end_time = end,
                                               !.archive_time = archive,
                                               !.public = public]>>
    /\ oldslugs = <<>>
    /\ approvals = <<>>
    /\ nextId = [event |-> Len(events) + 1, approval |-> 1, oldslug |-> 1]
    /\ slugCall = NoCall

\* the events page asked for, and a search on it
Browse == [method |-> "GET", data |-> [title |-> <<>>]]
FindRequests ==
    {Browse} \cup [method : {"POST"}, data : [title : {<<>>, <<"a">>}]]

NextLifecycle ==
    \/ Tick
    \/ \E u \in {"admin", Anonymous} : home(u)
    \/ manage_events("admin", Browse)

SpecLifecycle == InitLifecycle /\ [][NextLifecycle]_vars

\* the buckets of the listing in last that hold the event e
BucketsOf(e) ==
    {b \in DOMAIN last.listed \ {"search_results"} : e \in last.listed[b]}

\* a Scheduled event that has begun and that the user may see: home lists
\* it as live or as past
OnHome(e, u) ==
    /\ events[e].status = "S"
    /\ ~After(events[e].start_time, now)
    /\ is_active(u) \/ events[e].public

\* C14: at every instant and for every status, start_time, end_time and
\* archive_time, an event is in exactly one of the buckets of a view that
\* lists it: one of initiated, upcoming, live, archiving and archived on the
\* events page, and one of live and past on the home page once it is
\* Scheduled and has begun; also when a time field equals now.
C14_ExactlyOneBucket ==
    /\ (last.op = "events" /\ last.outcome = "render") =>
          \A e \in DOMAIN events : Cardinality(BucketsOf(e)) = 1
    /\ last.op = "home" =>
          \A e \in DOMAIN events :
             OnHome(e, last.user) => Cardinality(BucketsOf(e)) = 1

(***************************************************************************)
(* Notifications (C15): the groups have members, and one event's desired   *)
(* set of groups is edited freely.                                         *)
(***************************************************************************)
\* who belongs to which group: a group of two, a group of one, and a group
\* with no member or with one
Memberships ==
    {[admin |-> {"A"}, organizer |-> {"A", "B"}, visitor |-> {}],
     [admin |-> {"A", "C"}, organizer |-> {"B"}, visitor |-> {"B"}]}

InitNotify ==
    /\ \E membership \in Memberships : AccountsIn(membership)
    /\ NoEvents
    /\ slugCall = NoCall

NextNotify ==
    \/ /\ nextId.event <= MaxEvents
       /\ \E req \in OrphanRequests(0) :
             event_request("admin", req)
                /\ Bounded(MaxEvents, MaxOrphanApprovals, MaxOldSlugs)'
    \/ \E id \in DOMAIN events :
          \E req \in OrphanRequests(id) :
             event_edit("admin", id, req)
                /\ Bounded(MaxEvents, MaxOrphanApprovals, MaxOldSlugs)'

SpecNotify == InitNotify /\ [][NextNotify]_vars

\* C15: the workflow sends a notification only for the groups of desired
\* minus current, exactly one batch for each, addressed to the members of
\* that group; a group in both sets keeps its Approval row as it was, and no
\* batch is sent for it or for a group being removed.
C15_NotifyAddedGroupsOnly ==
    [][(last'.op \in {"event_request", "event_edit"} /\ last'.field) =>
         LET id == last'.id
             current == approvals_old(approvals, id)
             desired == last'.D
         IN /\ {m.group : m \in last'.notified} = desired \ current
            /\ Cardinality(last'.notified) = Cardinality(desired \ current)
            /\ \A m \in last'.notified :
                  m.to = {u \in users : m.group \in memberOf[u]}
            /\ \A a \in approval_set(approvals, id) :
                  approvals[a].group \in desired =>
                     /\ a \in DOMAIN approvals'
                     /\ approvals'[a] = approvals[a]]_vars

\* desired {A, B} against current {A, C}: B's row created, C's deleted, A's
\* kept, and one batch, to the two members of B
C15_Witness ==
    /\ last.op = "event_edit"
    /\ last.D = {"A", "B"}
    /\ last.notified = {[group |-> "B", to |-> {"organizer", "visitor"}]}
    /\ approvals_old(approvals, last.id) = {"A", "B"}
    /\ nextId.approval = 4
    /\ \E a \in DOMAIN approvals : a < 3 /\ approvals[a].group = "A"
    /\ approvals[3].group = "B"

(***************************************************************************)
(* A group asked again (C16): one group reviews one event; the group is    *)
(* taken from the desired set once it has decided, and is put back.        *)
(***************************************************************************)
InitReadd ==
    /\ AccountsIn([admin |-> {"A"}, organizer |-> {"A"}, visitor |-> {}])
    /\ NoEvents
    /\ slugCall = NoCall

\* the groups the form drops have decided
DropsDecided(id, desired) ==
    \A a \in approval_set(approvals, id) :
        approvals[a].group \notin desired => approvals[a].processed

NextReadd ==
    \/ /\ nextId.event <= MaxEvents
       /\ \E req \in [method : {"POST"}, fields : {{}}, data : ReviewData(0)] :
             event_request("admin", req)
                /\ Bounded(MaxEvents, MaxOrphanApprovals, MaxOldSlugs)'
    \/ \E id \in DOMAIN events :
          \E req \in [method : {"POST"}, fields : {{}}, data : ReviewData(id)] :
             /\ DropsDecided(id, req.data.approvals)
             /\ event_edit("admin", id, req)
             /\ Bounded(MaxEvents, MaxOrphanApprovals, MaxOldSlugs)'
    \/ \E u \in {"admin", "organizer"}, id \in DOMAIN approvals, req \in ReviewRequests :
          approval_review(u, id, req)
    \/ Tick

SpecReadd == InitReadd /\ [][NextReadd]_vars

\* C16: every Approval row the workflow creates is Pending: not approved, not
\* processed, without reviewer and without processed_time; also the row of a
\* group that had decided, was taken from the desired set and is asked again.
C16_CreatedPending ==
    [][\A a \in DOMAIN approvals' \ DOMAIN approvals :
          /\ ~approvals'[a].approved
          /\ ~approvals'[a].processed
          /\ approvals'[a].user = None
          /\ approvals'[a].processed_time = NoTime]_vars

\* the group's first row is gone (it had decided when it was dropped) and the
\* edit has just made its second row, which is Pending
C16_Witness ==
    /\ last.op = "event_edit"
    /\ "A" \in {m.group : m \in last.notified}
    /\ 1 \notin DOMAIN approvals
    /\ 2 \in DOMAIN approvals
    /\ approvals[2].group = "A"
    /\ ~approvals[2].processed
    /\ ~approvals[2].approved

(***************************************************************************)
(* Groups taken from the desired set (C17).                                *)
(***************************************************************************)
\* C17: when a group holds an Approval of the event and is not in the desired
\* set, the workflow deletes that Approval, whatever its state (Pending or
\* processed).
C17_DroppedGroupDeleted ==
    [][(last'.op \in {"event_request", "event_edit"} /\ last'.field) =>
         \A a \in approval_set(approvals, last'.id) :
            (approvals[a].group # None /\ approvals[a].group \notin last'.D) =>
               a \notin DOMAIN approvals']_vars

(***************************************************************************)
(* The remove views (C18): groups, participants, categories, templates and *)
(* locations, asked for with GET and with POST by the superuser and by an  *)
(* organizer.                                                              *)
(***************************************************************************)
RemoveActors == {"admin", "organizer"}
RemoveRequests == [method : Methods, fields : {{}}]

NextRemove ==
    \/ \E u \in RemoveActors, g \in AllGroups, req \in RemoveRequests :
          group_remove(u, g, req)
    \/ \E u \in RemoveActors, x \in AllParticipants, req \in RemoveRequests :
          participant_remove(u, x, req)
    \/ \E u \in RemoveActors, x \in AllCategories, req \in RemoveRequests :
          category_remove(u, x, req)
    \/ \E u \in RemoveActors, x \in AllTemplates, req \in RemoveRequests :
          template_remove(u, x, req)
    \/ \E u \in RemoveActors, x \in AllLocations, req \in RemoveRequests :
          location_remove(u, x, req)

SpecRemove == Init /\ [][NextRemove]_vars

RemoveViews ==
    [group_remove |-> "group", participant_remove |-> "participant",
     category_remove |-> "category", template_remove |-> "template",
     location_remove |-> "location"]

\* the objects of the kind a remove view deletes
ObjectsOf(op, grps, cat) == IF op = "group_remove" THEN grps ELSE cat[RemoveViews[op]]

\* a remove view that let the request in and found the object
Removing(response) ==
    /\ response.op \in DOMAIN RemoveViews
    /\ response.outcome \notin {"redirect:login", "error"}

\* C18 as stated: a GET request to a remove view leaves the object in
\* existence; a POST request deletes it, and the object no longer exists.
C18_PostDeletes ==
    [][Removing(last') =>
         LET before == ObjectsOf(last'.op, groups, catalog)
             after == ObjectsOf(last'.op, groups', catalog')
         IN /\ last'.method = "GET" => (groups' = groups /\ catalog' = catalog)
            /\ last'.method = "POST" => after = before \ {last'.target}]_vars

\* C18, amended: a GET request to a remove view leaves the object in
\* existence; a POST request deletes it, except that participant_remove
\* leaves a participant alone when the user neither created it nor has
\* main.change_participant_others.
C18_PostByOwnerDeletes ==
    [][Removing(last') =>
         LET before == ObjectsOf(last'.op, groups, catalog)
             after == ObjectsOf(last'.op, groups', catalog')
             foreign == /\ last'.op = "participant_remove"
                        /\ ~has_perm(last'.user, "main.change_participant_others")
                        /\ ParticipantCreator(last'.target) # last'.user
         IN /\ last'.method = "GET" => (groups' = groups /\ catalog' = catalog)
            /\ (last'.method = "POST" /\ ~foreign) => after = before \ {last'.target}
            /\ (last'.method = "POST" /\ foreign) =>
                  (groups' = groups /\ catalog' = catalog)]_vars

\* the organizer has removed the participant they created, and has posted
\* for the other one, which is still there
C18_Witness ==
    /\ last.op = "participant_remove"
    /\ last.method = "POST"
    /\ last.user = "organizer"
    /\ last.target = "ann"
    /\ last.outcome = "redirect:participants"
    /\ "ann" \in catalog.participant
    /\ "tim" \notin catalog.participant
    /\ ParticipantCreator("tim") = "organizer"

(***************************************************************************)
(* The decorators (C19): a client with no log in, a user who is not staff  *)
(* and an organizer with a few permissions ask for every view, also with a *)
(* cancel field.                                                           *)
(***************************************************************************)
GateActors == {Anonymous, "visitor", "organizer"}
GateFields == {{}, {"cancel"}}

GateEventRequests(id) ==
    [method : Methods, fields : GateFields, data : EventData(id, {<<"a">>}, {{}})]

GateRequests(data) == [method : Methods, fields : GateFields, data : data]

NextGate ==
    \/ /\ nextId.event <= MaxEvents
       /\ \E u \in GateActors, req \in GateEventRequests(0) :
             event_request(u, req) /\ Bounded(MaxEvents, MaxApprovals, MaxOldSlugs)'
    \/ \E u \in GateActors, id \in DOMAIN events :
          \E req \in GateEventRequests(id) :
             event_edit(u, id, req) /\ Bounded(MaxEvents, MaxApprovals, MaxOldSlugs)'
    \/ \E u \in GateActors, id \in DOMAIN events :
          \E req \in GateRequests([archive_time : {MinutesPerHour}]) :
             event_archive(u, id, req)
    \/ \E u \in GateActors : manage_events(u, Browse)
    \/ \E u \in GateActors, req \in GateRequests([groups : {{"A"}}]) :
          user_edit(u, "visitor", req)
    \/ \E u \in GateActors, req \in ReviewRequests : approval_review(u, 1, req)
    \/ \E u \in GateActors, req \in RemoveRequests :
          \/ group_remove(u, "A", req)
          \/ participant_remove(u, "tim", req)
          \/ category_remove(u, "cat7", req)
          \/ template_remove(u, "tmpl1", req)
          \/ location_remove(u, "loc1", req)

SpecGate == Init /\ [][NextGate]_vars

\* the permission each view is decorated with
RequiredPermission ==
    [event_request |-> "main.add_event", event_edit |-> "main.change_event",
     event_archive |-> "main.change_event_others", events |-> "main.change_event",
     user_edit |-> "auth.change_user", approval_review |-> "main.change_approval",
     group_remove |-> "auth.delete_group",
     participant_remove |-> "main.delete_participant",
     category_remove |-> "main.delete_category",
     template_remove |-> "main.delete_template",
     location_remove |-> "main.delete_location",
     participant_email |-> "main.change_participant",
     location_new |-> "main.add_location"]

\* not logged in, not staff, or without the permission of the view
Unauthorized(u, op) ==
    \/ u \notin users
    \/ ~IsStaff(u)
    \/ ~(IsSuperuser(u) \/ RequiredPermission[op] \in UserPermissions(u))

\* C19: a request to a management view by a user who is not logged in, is
\* not staff or lacks the view's permission changes no stored record and is
\* redirected to the login page, also when it is a POST with a cancel field.
C19_RefusedChangesNothing ==
    [][(last'.op \in DOMAIN RequiredPermission /\ Unauthorized(last'.user, last'.op)) =>
         /\ last'.outcome = "redirect:login"
         /\ UNCHANGED <<users, groups, memberOf, catalog, events, oldslugs,
                        approvals, nextId, inflight>>]_vars

\* a staff user without main.change_event_others posts a cancel to the
\* archive page of an event, and is sent to the login page, not to the events
\* list
C19_Witness ==
    /\ last.op = "event_archive"
    /\ last.user = "organizer"
    /\ last.method = "POST"
    /\ "cancel" \in last.fields
    /\ last.outcome = "redirect:login"
    /\ last.id \in DOMAIN events
    /\ events[last.id].archive_time = NullTime

(***************************************************************************)
(* One's own events (C20): the superuser and an organizer without          *)
(* main.change_event_others request events; the organizer lists the events *)
(* and asks to edit them.                                                  *)
(***************************************************************************)
OwnActors == {"admin", "organizer"}

OwnRequests(id) ==
    [method : Methods, fields : {{}},
     data : EventData(id, {<<"A">>}, SUBSET JoinedGroups)]

NextOwn ==
    \/ /\ nextId.event <= MaxSlugEvents
       /\ \E u \in OwnActors : \E req \in OwnRequests(0) :
             /\ req.method = "POST"
             /\ event_request(u, req)
             /\ Bounded(MaxSlugEvents, MaxApprovals, MaxOldSlugs)'
    \/ \E id \in DOMAIN events : \E req \in OwnRequests(id) :
          event_edit("organizer", id, req)
             /\ Bounded(MaxSlugEvents, MaxApprovals, MaxOldSlugs)'
    \/ \E req \in FindRequests : manage_events("organizer", req)

SpecOwn == Init /\ [][NextOwn]_vars

\* a user who passes the decorators of the events views without
\* main.change_event_others
OwnEventsOnly(u) ==
    /\ u \in users
    /\ IsStaff(u)
    /\ "main.change_event" \in UserPermissions(u)
    /\ ~IsSuperuser(u)
    /\ "main.change_event_others" \notin UserPermissions(u)

\* C20: a user without main.change_event_others sees in the events list only
\* events that user created, and that user's event_edit request for an event
\* of someone else is redirected and changes neither the event nor its
\* approvals.
C20_OwnEventsOnly ==
    [][/\ (last'.op = "events" /\ OwnEventsOnly(last'.user)) =>
            \A b \in DOMAIN last'.listed : \A e \in last'.listed[b] :
                events'[e].creator = last'.user
       /\ (/\ last'.op = "event_edit"
           /\ OwnEventsOnly(last'.user)
           /\ last'.id \in DOMAIN events
           /\ events[last'.id].creator # last'.user) =>
              /\ last'.outcome = "redirect:events"
              /\ events' = events
              /\ approvals' = approvals]_vars

\* the superuser's event has an approval, the organizer has an event too, and
\* the organizer's POST to edit the superuser's event was redirected
C20_Witness ==
    /\ last.op = "event_edit"
    /\ last.user = "organizer"
    /\ last.method = "POST"
    /\ last.outcome = "redirect:events"
    /\ last.id \in DOMAIN events
    /\ events[last.id].creator = "admin"
    /\ approval_set(approvals, last.id) # {}
    /\ \E e \in DOMAIN events : events[e].creator = "organizer"

(***************************************************************************)
(* Creator and modifier (C21): the superuser and an organizer request and  *)
(* edit one event with its approvals, and groups are deleted.              *)
(***************************************************************************)
NextAuthors ==
    \/ /\ nextId.event <= MaxEvents
       /\ \E u \in OwnActors, req \in WorkflowRequests(0) :
             event_request(u, req) /\ Bounded(MaxEvents, MaxApprovals, MaxOldSlugs)'
    \/ \E u \in OwnActors, id \in DOMAIN events :
          \E req \in WorkflowRequests(id) :
             event_edit(u, id, req) /\ Bounded(MaxEvents, MaxApprovals, MaxOldSlugs)'
    \/ \E g \in groups \cap WorkflowGroups : group_remove("admin", g, Post)

SpecAuthors == Init /\ [][NextAuthors]_vars

\* a create or an edit that went through: the form was bound and valid, and
\* the response is the redirect to the events list
Succeeded(response) ==
    /\ response.op \in {"event_request", "event_edit"}
    /\ response.zone # None
    /\ response.outcome = "redirect:events"

\* C21: the creator of an event is the user who requested it and no later
\* edit overwrites a creator that is set; modified_user is the user of the
\* most recent create or edit that succeeded, so a step that is not one
\* leaves it as it was.
C21_CreatorKeptModifierLatest ==
    [][/\ \A e \in DOMAIN events' \ DOMAIN events :
             events'[e].creator = last'.user
       /\ \A e \in DOMAIN events \cap DOMAIN events' :
             /\ events[e].creator # None => events'[e].creator = events[e].creator
             /\ events'[e].modified_user =
                   IF Succeeded(last') /\ last'.id = e
                   THEN last'.user ELSE events[e].modified_user]_vars

(***************************************************************************)
(* Participant tokens (C22): the superuser and an organizer ask for the    *)
(* email page of the participants, with GET, with POST and with a cancel.  *)
(***************************************************************************)
InitToken ==
    /\ Accounts
    /\ NoEvents
    /\ slugCall = NoCall

NextToken ==
    \E u \in OwnActors, x \in AllParticipants :
       \E req \in [method : Methods, fields : GateFields] :
          participant_email(u, x, req)

SpecToken == InitToken /\ [][NextToken]_vars

\* a user who passes the decorators of participant_email
MayEmail(u) ==
    /\ u \in users
    /\ IsStaff(u)
    /\ IsSuperuser(u) \/ "main.change_participant" \in UserPermissions(u)

\* the token is there after the request, and a token that was there is kept
TokenKept(x) ==
    /\ catalog'.clear_token[x] # NoToken
    /\ catalog.clear_token[x] # NoToken =>
          catalog'.clear_token[x] = catalog.clear_token[x]

\* C22 as stated: after any request to participant_email by an authorized
\* user the participant has a clear_token that is not empty, and a token
\* that was there is not replaced.
C22_TokenAfterAnyRequest ==
    [][(last'.op = "participant_email" /\ MayEmail(last'.user)) =>
          TokenKept(last'.target)]_vars

\* C22, amended: the same for the requests that reach the body of the view
\* and pass its owner test; a POST with a cancel field and a request by a
\* user who neither created the participant nor has
\* main.change_participant_others leave the token as it was, empty or not.
C22_TokenUnlessCancelled ==
    [][(last'.op = "participant_email" /\ MayEmail(last'.user)) =>
          IF \/ last'.method = "POST" /\ "cancel" \in last'.fields
             \/ /\ ~IsSuperuser(last'.user)
                /\ "main.change_participant_others" \notin UserPermissions(last'.user)
                /\ ParticipantCreator(last'.target) # last'.user
          THEN catalog' = catalog
          ELSE TokenKept(last'.target)]_vars

\* the organizer's participant has its token, a second request has been
\* answered, and the other participant, asked for with a cancel, has none
C22_Witness ==
    /\ last.op = "participant_email"
    /\ last.user = "organizer"
    /\ last.target = "tim"
    /\ last.method = "POST"
    /\ last.fields = {}
    /\ last.outcome = "redirect:participants"
    /\ catalog.clear_token["tim"] \in Tokens
    /\ catalog.clear_token["ann"] = NoToken

(***************************************************************************)
(* Decided Approvals (C23): events are requested and edited, the superuser *)
(* joins a group and reviews, and groups are deleted.                      *)
(***************************************************************************)
NextProcessed ==
    \/ /\ nextId.event <= MaxEvents
       /\ \E req \in WorkflowRequests(0) :
             event_request("admin", req) /\ Bounded(MaxEvents, MaxApprovals, MaxOldSlugs)'
    \/ \E id \in DOMAIN events :
          \E req \in WorkflowRequests(id) :
             event_edit("admin", id, req) /\ Bounded(MaxEvents, MaxApprovals, MaxOldSlugs)'
    \/ \E id \in DOMAIN approvals, req \in ReviewRequests :
          approval_review("admin", id, req)
    \/ \E req \in UserEditRequests(JoinedGroups) : user_edit("admin", "admin", req)
    \/ \E g \in groups \cap WorkflowGroups : group_remove("admin", g, Post)

SpecProcessed == Init /\ [][NextProcessed]_vars

\* C23: an Approval that is processed stays processed as long as its row
\* exists; no request of the workflow makes a processed row Pending again.
C23_ProcessedStays ==
    [][\A a \in DOMAIN approvals \cap DOMAIN approvals' :
          approvals[a].processed => approvals'[a].processed]_vars

\* a decided Approval is still decided after a second, denying review, after
\* its group was deleted and after an edit of its event that kept the row
C23_Witness ==
    /\ last.op \in {"event_edit", "approval_review", "group_remove"}
    /\ \E a \in DOMAIN approvals :
          /\ approvals[a].processed
          /\ ~approvals[a].approved
          /\ \/ last.op = "event_edit" /\ last.outcome = "redirect:events"
                   /\ approvals[a].event = last.id /\ Cardinality(DOMAIN approvals) = 2
             \/ last.op = "group_remove" /\ approvals[a].group = None

(***************************************************************************)
(* A mail backend that fails (C24): events are requested and edited, and   *)
(* the send to any of the groups may raise.                                *)
(***************************************************************************)
UnsentRequests(id) ==
    [method : {"POST"}, fields : {{}},
     data : EventData(id, {<<"a">>, <<"b">>}, SUBSET WorkflowGroups),
     unsent : SUBSET WorkflowGroups]

NextUnsent ==
    \/ /\ nextId.event <= MaxEvents
       /\ \E req \in UnsentRequests(0) :
             event_request("admin", req)
                /\ Bounded(MaxEvents, MaxOrphanApprovals, MaxOldSlugs)'
    \/ \E id \in DOMAIN events :
          \E req \in UnsentRequests(id) :
             event_edit("admin", id, req)
                /\ Bounded(MaxEvents, MaxOrphanApprovals, MaxOldSlugs)'

SpecUnsent == Init /\ [][NextUnsent]_vars

\* C24: when the send for an added group failed, the Approvals of the event
\* are not partially reconciled: it is not so that a desired group was added
\* while another desired group is missing or an obsolete group is present.
C24_NotPartialWhenSendFails ==
    [][last'.unsent # {} =>
          LET before == IF last'.id \in DOMAIN events
                        THEN approvals_old(approvals, last'.id) ELSE {}
              after == approvals_old(approvals', last'.id)
          IN ~ /\ (after \ before) \cap last'.D # {}
               /\ last'.D \ after # {} \/ after \ last'.D # {}]_vars

(***************************************************************************)
(* Two requests side by side (C25).  A request for a new event runs the    *)
(* view up to the existence test of unique_slugify inside event.save();    *)
(* the INSERT of the row is a second step, so that another request can     *)
(* test in between.                                                        *)
(***************************************************************************)
Racers == {1, 2}

\* event_request up to the pre_save of event.save(): the form is valid, the
\* slug is generated against the rows that are stored now
event_request_presave(r, u, req) ==
    /\ r \notin DOMAIN inflight
    /\ staff_required(u) /\ permission_required(u, "main.add_event")
    /\ ~Cancelled(req) /\ req.method = "POST"
    /\ is_valid(DB, FormClassRequest(u), 0, req.data)
    /\ inflight' = Put(inflight, r,
                       [op |-> "event_request", user |-> u, pc |-> "tested",
                        event |-> Slugged(DB, Localized(
                                     Attributed(FormSave(BlankEvent, req.data), u),
                                     req.data.timezone)),
                        outcome |-> ""])
    /\ UNCHANGED <<users, groups, memberOf, catalog, events, oldslugs, approvals,
                   nextId, now, last, slugCall>>

\* whether the slug column of Event carries a unique constraint
SlugConstraint == BOOLEAN

\* the INSERT of event.save() and the rest of the view.  When a row took the
\* slug since the test,  the INSERT raises under a unique constraint and
\* stores a second row of that slug without one; the view catches nothing
\* and generates no second slug.
event_request_commit(r) ==
    /\ r \in DOMAIN inflight
    /\ inflight[r].pc = "tested"
    /\ \E unique \in SlugConstraint :
          LET ev == inflight[r].event
              id == nextId.event
              raised == unique /\ ev.slug \in EventSlugs(events)
              made == [EventSave(DB, id, ev) EXCEPT !.nextId.event = @ + 1]
              outcome == IF raised THEN "error" ELSE "redirect:events"
          IN /\ Commit(IF raised THEN DB ELSE made,
                       Response("event_request", inflight[r].user, "POST", id, outcome))
             /\ inflight' = [inflight EXCEPT ![r].pc = "done",
                                             ![r].outcome = outcome,
                                             ![r].event = IF raised THEN ev
                                                          ELSE made.events[id]]
    /\ UNCHANGED <<users, groups, memberOf, catalog, now, slugCall>>

RaceRequests ==
    [method : {"POST"}, fields : {{}},
     data : [complete : {TRUE}, title : SlugTitles \cup {<<"b">>}, slug : {<<>>},
             start_time : {FixtureStart}, timezone : {"UTC"}, approvals : {{}}]]

NextSlugRace ==
    \/ \E r \in Racers, u \in OwnActors, req \in RaceRequests :
          event_request_presave(r, u, req)
    \/ \E r \in Racers : event_request_commit(r)

SpecSlugRace == Init /\ [][NextSlugRace]_vars

\* C25: when two requests computed the same slug, both having passed the
\* existence test before either stored its row, both complete and their
\* two rows hold distinct slugs.
C25_RaceRecovered ==
    \A r, q \in DOMAIN inflight :
        (r # q /\ inflight[r].pc = "done" /\ inflight[q].pc = "done") =>
            /\ inflight[r].outcome = "redirect:events"
            /\ inflight[r].event.slug # inflight[q].event.slug

(***************************************************************************)
(* unique_slugify step by step (C26): a call is drawn with its collections,*)
(* which stay as they are, and the loop runs one test at a time.           *)
(***************************************************************************)
LoopData == {<<>>, <<"a">>, <<"A", "!">>, TestEvent}

\* the locals of the call
Loop == inflight[1]

\* the call is made: slug_base = slugify(data); counter = 0; slug = slug_base
unique_slugify_enter(data, models, duplicate_key) ==
    /\ inflight = <<>>
    /\ slugCall' = [data |-> data, models |-> models,
                    duplicate_key |-> duplicate_key,
                    slug |-> <<>>, returned |-> FALSE]
    /\ inflight' = <<[op |-> "unique_slugify", slug_base |-> slugify(data),
                      counter |-> 0, slug |-> slugify(data), tried |-> {}]>>
    /\ UNCHANGED <<users, groups, memberOf, catalog, events, oldslugs, approvals,
                   nextId, now, last>>

\* one turn of the while loop: the test found a row
unique_slugify_iterate ==
    /\ inflight # <<>>
    /\ ~slugCall.returned
    /\ SlugExists(Loop.slug, slugCall.models)
    /\ LET c == Loop.counter + 1
           keyed == c = 1 /\ slugCall.duplicate_key # <<>>
           base == IF keyed THEN WithSuffix(Loop.slug_base, slugCall.duplicate_key)
                   ELSE Loop.slug_base
       IN inflight' = [inflight EXCEPT
                         ![1].counter = c,
                         ![1].slug_base = base,
                         ![1].slug = IF keyed THEN base ELSE Candidate(base, c),
                         ![1].tried = @ \cup {Loop.slug}]
    /\ UNCHANGED <<users, groups, memberOf, catalog, events, oldslugs, approvals,
                   nextId, now, last, slugCall>>

\* the test found no row: return slug
unique_slugify_return ==
    /\ inflight # <<>>
    /\ ~slugCall.returned
    /\ ~SlugExists(Loop.slug, slugCall.models)
    /\ slugCall' = [slugCall EXCEPT !.slug = Loop.slug, !.returned = TRUE]
    /\ UNCHANGED <<users, groups, memberOf, catalog, events, oldslugs, approvals,
                   nextId, now, last, inflight>>

NextSlugLoop ==
    \/ \E d \in LoopData, k \in {<<>>, StrfDate(Aware(FixtureStart, 0))} :
          \E m \in CollectionLists(SlugPool(d, k)) : unique_slugify_enter(d, m, k)
    \/ unique_slugify_iterate
    \/ unique_slugify_return

\* a call that has begun takes its next step
SpecSlugLoop ==
    /\ Init
    /\ [][NextSlugLoop]_vars
    /\ WF_vars(unique_slugify_iterate \/ unique_slugify_return)

\* C26: with finite collections that no one changes, every call of
\* unique_slugify returns, and every turn of its loop tries a candidate that
\* it has not tried before.
C26_Terminates ==
    /\ (inflight # <<>>) ~> slugCall.returned
    /\ [][inflight' # <<>> => inflight'[1].slug \notin inflight'[1].tried]_vars

\* a call returned after three turns, with the slug the function computes
C26_Witness ==
    /\ slugCall.returned
    /\ Loop.counter = 3
    /\ Cardinality(Loop.tried) = 3
    /\ slugCall.slug = unique_slugify(slugCall.data, slugCall.models,
                                      slugCall.duplicate_key)

(***************************************************************************)
(* Two edits side by side (C27).  An edit runs the view up to the reading  *)
(* of approvals_old; its two loops are a second step, so that another edit *)
(* can read in between.                                                    *)
(***************************************************************************)
\* event_edit up to the sets approvals_add and approvals_remove: the form is
\* valid, the event is saved, the Approvals of the event are read
event_edit_read(r, u, id, req) ==
    /\ r \notin DOMAIN inflight
    /\ staff_required(u) /\ permission_required(u, "main.change_event")
    /\ ~Cancelled(req) /\ req.method = "POST"
    /\ id \in DOMAIN events
    /\ has_perm(u, "main.change_event_others") \/ u = events[id].creator
    /\ HasApprovalsField(FormClassEdit(u))
    /\ is_valid(DB, FormClassEdit(u), id, req.data)
    /\ LET ev == Localized(Attributed(FormSave(events[id], req.data), u),
                           req.data.timezone)
           db1 == EventSave(DB, id, ev)
           old == approvals_old(db1.approvals, id)
       IN /\ events' = db1.events
          /\ oldslugs' = db1.oldslugs
          /\ nextId' = db1.nextId
          /\ inflight' = Put(inflight, r,
                             [op |-> "event_edit", user |-> u, pc |-> "read",
                              id |-> id, event |-> Slugged(DB, ev),
                              D |-> req.data.approvals,
                              add |-> approvals_add(req.data.approvals, old),
                              remove |-> approvals_remove(req.data.approvals, old),
                              outcome |-> ""])
    /\ UNCHANGED <<users, groups, memberOf, catalog, approvals, now, last, slugCall>>

\* whether Approval carries a unique constraint on (event, group)
ApprovalConstraint == BOOLEAN

\* the two loops of _event_process over the sets read before, against the
\* rows stored now, and the rest of the view.  Saving the Approval of a
\* group that got one since the reading raises under a unique constraint and
\* stores a second row without one.
EditOutcomes(db, id, add, remove, unique) ==
    LET dup == {g \in add : ApprovalsMatching(db.approvals, id, g) # {}}
    IN IF unique /\ dup # {}
       THEN {[db |-> AddApprovals(db, id, S), raised |-> TRUE] :
                S \in SUBSET (add \ dup)}
       ELSE RemoveOutcomes(AddApprovals(db, id, add), id, remove)

event_edit_apply(r) ==
    /\ r \in DOMAIN inflight
    /\ inflight[r].pc = "read"
    /\ \E unique \in ApprovalConstraint :
          \E o \in EditOutcomes(DB, inflight[r].id, inflight[r].add,
                                inflight[r].remove, unique) :
             LET id == inflight[r].id
                 outcome == IF o.raised THEN "error" ELSE "redirect:events"
             IN /\ Commit(IF o.raised THEN o.db
                          ELSE EventSave(o.db, id, inflight[r].event),
                          [Response("event_edit", inflight[r].user, "POST", id, outcome)
                             EXCEPT !.field = TRUE, !.D = inflight[r].D])
                /\ inflight' = [inflight EXCEPT ![r].pc = "done",
                                                ![r].outcome = outcome]
    /\ UNCHANGED <<users, groups, memberOf, catalog, now, slugCall>>

NextEditRace ==
    \/ /\ nextId.event <= MaxEvents
       /\ \E req \in WorkflowRequests(0) :
             event_request("admin", req) /\ Bounded(MaxEvents, MaxApprovals, MaxOldSlugs)'
    \/ \E r \in Racers, u \in OwnActors, id \in DOMAIN events :
          \E req \in WorkflowRequests(id) : event_edit_read(r, u, id, req)
    \/ \E r \in Racers : event_edit_apply(r)

SpecEditRace == Init /\ [][NextEditRace]_vars

\* both edits have ended
BothDone == DOMAIN inflight = Racers /\ \A r \in Racers : inflight[r].pc = "done"

\* C27: two edits of one event served side by side that both add a group
\* never leave two Approvals of the event for that group, and two that both
\* remove a group both complete without error.
C27_ConcurrentEditsSafe ==
    /\ \A a, b \in DOMAIN approvals :
          (approvals[a].event = approvals[b].event
              /\ approvals[a].group = approvals[b].group) => a = b
    /\ BothDone =>
          \A g \in inflight[1].remove \cap inflight[2].remove :
              \A r \in Racers : inflight[r].outcome = "redirect:events"

(***************************************************************************)
(* Approvals left without group (C28).                                     *)
(***************************************************************************)
\* the Approvals of the event whose group was deleted
Orphans(apps, id) == ApprovalsMatching(apps, id, None)

\* C28: when Approvals of an event have lost their group, a later run of the
\* workflow on the event ends without error, deletes every Approval without
\* group, and leaves the groups that hold an Approval equal to the desired
\* set.
C28_OrphansCleared ==
    [][(Reconciled(last') /\ last'.id \in DOMAIN events
           /\ Orphans(approvals, last'.id) # {}) =>
          /\ last'.outcome = "redirect:events"
          /\ Orphans(approvals', last'.id) = {}
          /\ ApprovalGroups(approvals', last'.id) = last'.D]_vars

(***************************************************************************)
(* The form without approvals (C29): a plain event organizer requests and  *)
(* edits an event, and the superuser edits it with the approvals field.    *)
(***************************************************************************)
InitPlain ==
    /\ AccountsIn([u \in AllUsers \cup {Planner} |-> {}])
    /\ NoEvents
    /\ slugCall = NoCall

PlainRequests(id) ==
    [method : {"POST"}, fields : {{}},
     data : EventData(id, {<<"a">>, <<"b">>}, SUBSET WorkflowGroups)]

NextPlain ==
    \/ /\ nextId.event <= MaxEvents
       /\ \E req \in PlainRequests(0) :
             event_request(Planner, req) /\ Bounded(MaxEvents, MaxApprovals, MaxOldSlugs)'
    \/ \E u \in {"admin", Planner}, id \in DOMAIN events :
          \E req \in PlainRequests(id) :
             event_edit(u, id, req) /\ Bounded(MaxEvents, MaxApprovals, MaxOldSlugs)'

SpecPlain == InitPlain /\ [][NextPlain]_vars

\* the request was served with EventRequestForm
PlainForm(response) ==
    \/ response.op = "event_request"
          /\ FormClassRequest(response.user) = "EventRequestForm"
    \/ response.op = "event_edit"
          /\ FormClassEdit(response.user) = "EventRequestForm"

\* C29: an event request or edit whose form has no approvals field creates,
\* deletes and changes no Approval and sends no notification.
C29_NoFieldNoApprovals ==
    [][PlainForm(last') => approvals' = approvals /\ last'.notified = {}]_vars

\* the plain organizer saved an edit of an event that holds an Approval, with
\* a posted approvals value that names another set
C29_Witness ==
    /\ last.op = "event_edit"
    /\ last.user = Planner
    /\ last.outcome = "redirect:events"
    /\ events[last.id].title = <<"b">>
    /\ approvals_old(approvals, last.id) = {"A"}

(***************************************************************************)
(* Cancel (C30): the views wrapped by cancel_redirect are posted to, with  *)
(* and without a cancel field beside the data.                             *)
(***************************************************************************)
CancelActors == {"admin", "organizer"}

CancelRequests(data) == [method : {"POST"}, fields : GateFields, data : data]

NextCancel ==
    \/ /\ nextId.event <= MaxEvents
       /\ \E u \in CancelActors :
             \E req \in CancelRequests(EventData(0, {<<"a">>}, {JoinedGroups})) :
                event_request(u, req) /\ Bounded(MaxEvents, MaxApprovals, MaxOldSlugs)'
    \/ \E u \in CancelActors, id \in DOMAIN events :
          \E req \in CancelRequests(EventData(id, {<<"a">>}, {{}})) :
             event_edit(u, id, req) /\ Bounded(MaxEvents, MaxApprovals, MaxOldSlugs)'
    \/ \E id \in DOMAIN events :
          \E req \in CancelRequests([archive_time : {MinutesPerHour}]) :
             event_archive("admin", id, req)
    \/ \E req \in CancelRequests([groups : {{"A"}}]) :
          user_edit("admin", "visitor", req)
    \/ \E req \in [method : {"POST"}, fields : GateFields] :
          participant_email("organizer", "tim", req)
    \/ \E u \in CancelActors :
          \E req \in CancelRequests([name : {"loc2"}, timezone : {"UTC"}]) :
             location_new(u, req)

SpecCancel == Init /\ [][NextCancel]_vars

\* the list view of each view that cancel_redirect wraps
ListView ==
    [event_request |-> "redirect:events", event_edit |-> "redirect:events",
     event_archive |-> "redirect:events", user_edit |-> "redirect:users",
     participant_email |-> "redirect:participants",
     location_new |-> "redirect:locations"]

\* the view each is wrapped with: cancel_redirect('manage:...')
CancelTarget == [ListView EXCEPT !.location_new = "redirect:home"]

\* the response answers a POST with a cancel field to a wrapped view
CancelPosted(response) ==
    /\ response.op \in DOMAIN ListView
    /\ response.method = "POST"
    /\ "cancel" \in response.fields

\* no stored record changed, no email was sent, no token was made
NothingDone ==
    /\ UNCHANGED <<users, groups, memberOf, catalog, events, oldslugs, approvals,
                   nextId>>
    /\ last'.notified = {}

\* C30 as stated: a POST with a cancel field to a view wrapped by
\* cancel_redirect is redirected to the list view of the view, changes no
\* stored record, sends no email and makes no token.
C30_CancelToListView ==
    [][CancelPosted(last') =>
          last'.outcome = ListView[last'.op] /\ NothingDone]_vars

\* C30, amended: such a POST changes no stored record, sends no email and
\* makes no token, whatever its data; a user who passes staff_required and
\* permission_required is redirected to the view cancel_redirect names, the
\* list view but for location_new, which names the management home; any
\* other user is redirected to the login page.
C30_CancelChangesNothing ==
    [][CancelPosted(last') =>
          /\ NothingDone
          /\ last'.outcome = IF Unauthorized(last'.user, last'.op)
                             THEN "redirect:login"
                             ELSE CancelTarget[last'.op]]_vars

\* the organizer cancelled the edit of their event, which keeps its Approval
\* though the form posted beside the cancel asks for none
C30_Witness ==
    /\ CancelPosted(last)
    /\ last.op = "event_edit"
    /\ last.user = "organizer"
    /\ last.outcome = "redirect:events"
    /\ last.id \in DOMAIN events
    /\ approvals_old(approvals, last.id) = JoinedGroups
    /\ catalog.clear_token["tim"] = NoToken

====
